---------------------------- MODULE Spec2Model ----------------------------
(***************************************************************************)
(* A model of the analytics core of the retail decision-support services   *)
(* (python-apis/): the pull-through cache of the transaction table, the    *)
(* return-risk scorer and policy optimizer of inventory_api.py, the RFM    *)
(* segment classifier of marketing_api.py and the basket / itemset mining  *)
(* of sales_manager_api.py and marketing_api.py.                           *)
(*                                                                         *)
(* Floating-point values are modelled as exact rationals <<n, d>> in       *)
(* lowest terms (d > 0); round(x, k) is modelled as round-half-even on the *)
(* exact value.                                                            *)
(***************************************************************************)
EXTENDS Integers, Sequences, FiniteSets, TLC

VARIABLES
    now,              \* datetime.now(), in whole seconds
    cached_df,        \* per service: _cached_df ("None" or "table")
    cache_timestamp,  \* per service: _cache_timestamp (NoTime or a time)
    call,             \* the last call of get_local_transactions_df
    df,               \* the transaction table the endpoints read
    resp              \* the response of the request being answered

vars == <<now, cached_df, cache_timestamp, call, df, resp>>

None == "None"

\* _cache_timestamp = None
NoTime == 0 - 1

\* No request is being answered.
NoResp == [kind |-> "none"]

\* No call of get_local_transactions_df is being answered.
NoCall == [svc |-> None]

\* The endpoints of this module do not read a table.
NoTable == [flagged |-> FALSE, rows |-> <<>>]

(***************************************************************************)
(* Bounds of the model.                                                    *)
(***************************************************************************)
\* The clock runs up to MaxClock seconds (a little more than one day).
MaxClock == 93600

\* The steps by which the clock advances between two calls.
TickSteps == {3600, 82800}

(***************************************************************************)
(* Exact rational arithmetic, standing for the float arithmetic of the     *)
(* endpoints.                                                              *)
(***************************************************************************)
Abs(x) == IF x < 0 THEN -x ELSE x

RECURSIVE GCD(_, _)
GCD(a, b) == IF b = 0 THEN a ELSE GCD(b, a % b)

\* The rational n/d (d # 0) in lowest terms with a positive denominator.
Rat(n, d) ==
    LET g == GCD(Abs(n), Abs(d))
        s == IF d < 0 THEN -1 ELSE 1
    IN  <<(s * n) \div g, (s * d) \div g>>

RInt(k) == <<k, 1>>
RAdd(a, b) == Rat(a[1] * b[2] + b[1] * a[2], a[2] * b[2])
RSub(a, b) == Rat(a[1] * b[2] - b[1] * a[2], a[2] * b[2])
RMul(a, b) == Rat(a[1] * b[1], a[2] * b[2])
RDiv(a, b) == Rat(a[1] * b[2], a[2] * b[1])
RLt(a, b) == a[1] * b[2] < b[1] * a[2]
RLe(a, b) == a[1] * b[2] <= b[1] * a[2]
RAbs(a) == <<Abs(a[1]), a[2]>>

\* Python's min(a, b) and max(a, b): the first argument unless the second
\* is strictly smaller (larger).
PyMin(a, b) == IF RLt(b, a) THEN b ELSE a
PyMax(a, b) == IF RLt(a, b) THEN b ELSE a

\* floor(n / d) for d > 0.
FloorDiv(n, d) == n \div d

\* round(x, k) with scale = 10^k: to the nearest multiple of 1/scale, a tie
\* going to the even one.
Round(x, scale) ==
    LET n == x[1] * scale
        d == x[2]
        q == FloorDiv(n, d)
        r == n - q * d
        up == \/ 2 * r > d
              \/ 2 * r = d /\ q % 2 = 1
    IN  Rat(IF up THEN q + 1 ELSE q, scale)

Round2(x) == Round(x, 100)

(***************************************************************************)
(* The pull-through cache of get_local_transactions_df (inventory_api.py   *)
(* and admin_api.py).                                                      *)
(***************************************************************************)
Services == {"inventory", "admin"}

\* What the loader chain finds on disk when it runs.
Files == {"csv", "parquet", "none"}

\* _cache_ttl
cache_ttl == 3600

SecondsPerDay == 24 * 60 * 60

\* timedelta.seconds of a non-negative timedelta of d seconds: the seconds
\* within the last day; whole days are held in timedelta.days.
TimedeltaSeconds(d) == d % SecondsPerDay

\* (datetime.now() - _cache_timestamp).seconds
elapsed(s) == TimedeltaSeconds(now - cache_timestamp[s])

\* The cache validity test of get_local_transactions_df.
CacheValid(s) ==
    /\ cached_df[s] # None
    /\ cache_timestamp[s] # NoTime
    /\ elapsed(s) < cache_ttl

\* The seconds since the cache of s was filled, -1 when it never was.
Age(s) == IF cache_timestamp[s] = NoTime THEN -1 ELSE now - cache_timestamp[s]

\* The loader that answers a cache miss, and whether it fills the cache:
\* inventory caches the result of every loader; admin raises
\* FileNotFoundError when no file exists and returns the MongoDB table from
\* its except branch without caching it.
Loader(f) == IF f = "none" THEN "mongo" ELSE f
FillsCache(s, f) == s = "inventory" \/ f # "none"

get_local_transactions_df(s, f) ==
    IF CacheValid(s)
    THEN /\ call' = [svc |-> s, outcome |-> "cached", loader |-> None,
                     age |-> Age(s)]
         /\ UNCHANGED <<cached_df, cache_timestamp>>
    ELSE /\ call' = [svc |-> s, outcome |-> "loaded", loader |-> Loader(f),
                     age |-> Age(s)]
         /\ IF FillsCache(s, f)
            THEN /\ cached_df' = [cached_df EXCEPT ![s] = "table"]
                 /\ cache_timestamp' = [cache_timestamp EXCEPT ![s] = now]
            ELSE UNCHANGED <<cached_df, cache_timestamp>>

GetLocalTransactionsDf ==
    /\ call = NoCall
    /\ \E s \in Services, f \in Files : get_local_transactions_df(s, f)
    /\ UNCHANGED <<now, df, resp>>

\* The call returns the table to the endpoint that made it.
ReturnTable ==
    /\ call # NoCall
    /\ call' = NoCall
    /\ UNCHANGED <<now, cached_df, cache_timestamp, df, resp>>

\* Time passes between two calls.
Tick ==
    /\ call = NoCall
    /\ \E d \in TickSteps :
          /\ now + d <= MaxClock
          /\ now' = now + d
    /\ UNCHANGED <<cached_df, cache_timestamp, call, df, resp>>

InitCache ==
    /\ now = 0
    /\ cached_df = [s \in Services |-> None]
    /\ cache_timestamp = [s \in Services |-> NoTime]
    /\ call = NoCall
    /\ df = NoTable
    /\ resp = NoResp

NextCache == GetLocalTransactionsDf \/ ReturnTable \/ Tick

SpecCache == InitCache /\ [][NextCache]_vars

(***************************************************************************)
(* The transaction table of the inventory service (inventory_api.py).      *)
(* A row is an invoice line; InvoiceNo is [c, n]: the number n, prefixed   *)
(* with the cancellation marker "C" when c.  flagged tells whether the     *)
(* loader added the IsReturn / IsNegativeQty columns (the CSV and Parquet  *)
(* loaders do, the MongoDB fallback does not).                             *)
(***************************************************************************)
\* The tables of the model hold at most MaxLines rows.
MaxLines == 3

InvoiceNos == << [c |-> FALSE, n |-> 1], [c |-> TRUE, n |-> 2],
                 [c |-> TRUE, n |-> 3] >>
CustomerIDs == << "A", "NaN" >>
StockCodes == << "X", "Y" >>
Quantities == << 0 - 1, 2 >>
UnitPrices == << 50 >>

NumLineTypes ==
    Len(InvoiceNos) * Len(CustomerIDs) * Len(StockCodes) * Len(Quantities)
        * Len(UnitPrices)

\* The k-th kind of row, k in 0 .. NumLineTypes - 1.
LineType(k) ==
    LET a == k \div Len(InvoiceNos)
        b == a \div Len(CustomerIDs)
        c == b \div Len(StockCodes)
        d == c \div Len(Quantities)
    IN  [InvoiceNo  |-> InvoiceNos[(k % Len(InvoiceNos)) + 1],
         CustomerID |-> CustomerIDs[(a % Len(CustomerIDs)) + 1],
         StockCode  |-> StockCodes[(b % Len(StockCodes)) + 1],
         Quantity   |-> Quantities[(c % Len(Quantities)) + 1],
         UnitPrice  |-> UnitPrices[(d % Len(UnitPrices)) + 1]]

\* The row sequences of the model: the order of the rows of a table decides
\* nothing below, so one order stands for each multiset of rows.
RowSeqs ==
    UNION { { [i \in 1..n |-> LineType(ks[i])] :
                ks \in { f \in [1..n -> 0..(NumLineTypes - 1)] :
                           \A i \in 1..n : i < n => f[i] <= f[i + 1] } } :
            n \in 0..MaxLines }

InventoryTables == { [flagged |-> fl, rows |-> rs] : fl \in BOOLEAN, rs \in RowSeqs }

\* df['InvoiceNo'].astype(str).str.startswith('C')
IsReturn(r) == r.InvoiceNo.c
\* df['Quantity'] < 0
IsNegativeQty(r) == r.Quantity < 0
\* df['Quantity'] * df['UnitPrice']
Revenue(r) == r.Quantity * r.UnitPrice
\* pd.notna(customer_id)
NotNa(c) == c # "NaN"

Idx(t) == DOMAIN t.rows
\* df.empty
Empty(t) == Len(t.rows) = 0

\* data['InvoiceNo'].nunique() over the rows I of t
Nunique(t, I) == Cardinality({ t.rows[i].InvoiceNo : i \in I })

RECURSIVE SumOver(_, _)
\* The sum of f[i] (rationals) over i in I.
SumOver(f, I) ==
    IF I = {} THEN RInt(0)
    ELSE LET i == CHOOSE j \in I : TRUE
         IN  RAdd(f[i], SumOver(f, I \ {i}))

\* Series.mean() of f over the non-empty index set I.
MeanOver(f, I) == RDiv(SumOver(f, I), RInt(Cardinality(I)))

\* returned / total * 100
Percent(part, total) == RMul(Rat(part, total), RInt(100))

(***************************************************************************)
(* POST /calculate-risk-score                                              *)
(***************************************************************************)
RiskRequests ==
    [customer_id : {"A", "Z"}, stock_code : {"X", "W"},
     quantity : {0 - 10, 2, 4},
     unit_price : {Rat(25, 1), Rat(50, 1), Rat(13997, 100)}]

\* The return rate over the rows I of one customer or product: the larger of
\* the share of "C" invoices and the share of invoices with a negative
\* quantity.
ReturnRate(t, I) ==
    LET total == Nunique(t, I)
        returned == Nunique(t, { i \in I : IsReturn(t.rows[i]) })
        negative == Nunique(t, { i \in I : IsNegativeQty(t.rows[i]) })
    IN  PyMax(Percent(returned, total), Percent(negative, total))

customer_return_rate(req, t) ==
    LET customer_data == { i \in Idx(t) : t.rows[i].CustomerID = req.customer_id }
    IN  IF customer_data # {} THEN ReturnRate(t, customer_data) ELSE RInt(30)

product_return_rate(req, t) ==
    LET product_data == { i \in Idx(t) : t.rows[i].StockCode = req.stock_code }
    IN  IF product_data # {} THEN ReturnRate(t, product_data) ELSE RInt(20)

quantity_risk(req, t) ==
    LET positive_qty == { i \in Idx(t) : t.rows[i].Quantity > 0 }
        avg_quantity ==
            IF positive_qty # {}
            THEN MeanOver([i \in positive_qty |-> RInt(t.rows[i].Quantity)], positive_qty)
            ELSE RInt(1)
    IN  PyMin(RInt(100), RMul(RDiv(RInt(req.quantity), avg_quantity), RInt(30)))

value_risk(req, t) ==
    LET order_value == RMul(RInt(req.quantity), req.unit_price)
        positive_revenue == { i \in Idx(t) : Revenue(t.rows[i]) > 0 }
        avg_order_value ==
            IF positive_revenue # {}
            THEN MeanOver([i \in positive_revenue |-> RInt(Revenue(t.rows[i]))],
                          positive_revenue)
            ELSE RInt(100)
        value_deviation ==
            IF RLt(RInt(0), avg_order_value)
            THEN RDiv(RAbs(RSub(order_value, avg_order_value)), avg_order_value)
            ELSE RInt(0)
    IN  PyMin(RInt(100), RMul(value_deviation, RInt(50)))

\* Clamp without its lower bound.
Clamp_NoFloor(x) == PyMin(RInt(100), x)

\* max(0, min(100, x))
Clamp(x) == PyMax(RInt(0), PyMin(RInt(100), x))

\* The weighted risk score of an order, clamped to 0-100.
WeightedRisk(req, t) ==
    Clamp(RAdd(RAdd(RMul(customer_return_rate(req, t), Rat(4, 10)),
                    RMul(product_return_rate(req, t), Rat(3, 10))),
               RAdd(RMul(quantity_risk(req, t), Rat(2, 10)),
                    RMul(value_risk(req, t), Rat(1, 10)))))

\* The level with the boundaries taken on the lower side.
RiskLevel_Inclusive(risk_score) ==
    IF RLe(risk_score, RInt(33)) THEN "Low"
    ELSE IF RLe(risk_score, RInt(67)) THEN "Medium"
    ELSE "High"

\* "Determine risk level"
RiskLevel(risk_score) ==
    IF RLt(risk_score, RInt(33)) THEN "Low"
    ELSE IF RLt(risk_score, RInt(67)) THEN "Medium"
    ELSE "High"

\* The outcome of an endpoint whose try block raised: its except clause
\* turns every exception into HTTPException(500).
Http500(kind, exc) ==
    [kind |-> kind, status |-> 500, success |-> FALSE, error |-> exc]

calculate_risk_score(req, t) ==
    IF Empty(t)
    THEN \* risk_score = 50.0; the message then reads customer_return_rate,
         \* which no branch has assigned
         Http500("risk_score", "UnboundLocalError")
    ELSE IF ~t.flagged
    THEN \* customer_data['IsReturn'] on a table without that column
         Http500("risk_score", "KeyError")
    ELSE LET risk_score == WeightedRisk(req, t)
         IN  [kind |-> "risk_score", status |-> 200, success |-> TRUE,
              customer_id |-> req.customer_id, stock_code |-> req.stock_code,
              quantity |-> req.quantity, unit_price |-> req.unit_price,
              customer_return_rate |-> customer_return_rate(req, t),
              product_return_rate |-> product_return_rate(req, t),
              score |-> risk_score,
              risk_score |-> Round2(risk_score),
              risk_level |-> RiskLevel(risk_score)]

CalculateRiskScore ==
    /\ resp = NoResp
    /\ \E req \in RiskRequests : resp' = calculate_risk_score(req, df)
    /\ UNCHANGED <<now, cached_df, cache_timestamp, call, df>>

(***************************************************************************)
(* POST /simulate-policy                                                   *)
(***************************************************************************)
PolicyRequests ==
    [threshold_tau : {0, 60, 100}, return_processing_cost : {10},
     conversion_impact : {Rat(2, 10)}, sample_size : {1, 1000}]

df_positive_KeepsReturns(t) ==
    { i \in Idx(t) : t.rows[i].Quantity > 0 /\ t.rows[i].UnitPrice > 0 }

\* df[~df['IsReturn'] & (df['Quantity'] > 0) & (df['UnitPrice'] > 0)]
df_positive(t) ==
    { i \in Idx(t) : /\ ~IsReturn(t.rows[i])
                     /\ t.rows[i].Quantity > 0
                     /\ t.rows[i].UnitPrice > 0 }

\* The sample taken as the whole of df_positive, whatever sample_size.
df_sample_All(t, sample_size) == df_positive(t)

\* df_positive.sample(n=sample_size, random_state=42) when the table holds
\* more rows than sample_size, else all of it.  The seed is fixed: the
\* sample is a function of the table and the size.
df_sample(t, sample_size) ==
    IF Cardinality(df_positive(t)) > sample_size
    THEN CHOOSE S \in SUBSET df_positive(t) : Cardinality(S) = sample_size
    ELSE df_positive(t)

\* The "C" invoice share of the rows I, in percent.
ReturnedShare(t, I) ==
    Percent(Nunique(t, { i \in I : IsReturn(t.rows[i]) }), Nunique(t, I))

\* The simplified risk score of the sampled row i (customer 60% + product
\* 40%), clamped to 0-100.
RowRisk(t, i) ==
    LET customer_id == t.rows[i].CustomerID
        stock_code == t.rows[i].StockCode
        rate_c ==
            IF NotNa(customer_id)
            THEN ReturnedShare(t, { j \in Idx(t) : t.rows[j].CustomerID = customer_id })
            ELSE RInt(30)
        rate_p == ReturnedShare(t, { j \in Idx(t) : t.rows[j].StockCode = stock_code })
    IN  PyMin(RInt(100),
              PyMax(RInt(0), RAdd(RMul(rate_c, Rat(6, 10)), RMul(rate_p, Rat(4, 10)))))

\* Blocking only above the threshold.
Blocked_Strict(risk, tau) == RLt(RInt(tau), risk)

\* df_sample['RiskScore'] >= request.threshold_tau
Blocked(risk, tau) == RLe(RInt(tau), risk)

\* calc_expected_profit of one row
calc_expected_profit(revenue, risk, blocked, req) ==
    LET costs == RMul(RInt(revenue), Rat(3, 10))
        base_profit == RSub(RInt(revenue), costs)
    IN  IF blocked
        THEN RMul(base_profit, RSub(RInt(1), req.conversion_impact))
        ELSE RSub(base_profit,
                  RMul(RDiv(risk, RInt(100)), RInt(req.return_processing_cost)))

\* The scored sample: per sampled row its RiskScore, Blocked and
\* ExpectedProfit columns.
ScoredSample(req, t) ==
    [i \in df_sample(t, req.sample_size) |->
        LET risk == RowRisk(t, i)
            blocked == Blocked(risk, req.threshold_tau)
        IN  [Revenue |-> Revenue(t.rows[i]), RiskScore |-> risk, Blocked |-> blocked,
             ExpectedProfit |->
                 calc_expected_profit(Revenue(t.rows[i]), risk, blocked, req)]]

simulate_policy(req, t) ==
    IF Empty(t)
    THEN \* HTTPException(404) raised inside the try block
         Http500("simulate", "HTTPException404")
    ELSE IF ~t.flagged
    THEN Http500("simulate", "KeyError")
    ELSE IF df_positive(t) = {}
    THEN Http500("simulate", "HTTPException404")
    ELSE IF Cardinality(df_positive(t)) > req.sample_size /\ req.sample_size < 0
    THEN Http500("simulate", "ValueError")
    ELSE
      LET orders == ScoredSample(req, t)
          sample == DOMAIN orders
          blocked == { i \in sample : orders[i].Blocked }
          allowed == sample \ blocked
          risks == [i \in sample |-> orders[i].RiskScore]
          total_profit == SumOver([i \in sample |-> orders[i].ExpectedProfit], sample)
      IN  [kind |-> "simulate", status |-> 200, success |-> TRUE, pytype |-> "dict",
           threshold_tau |-> req.threshold_tau,
           return_processing_cost |-> req.return_processing_cost,
           conversion_impact |-> req.conversion_impact,
           sample_size |-> req.sample_size,
           orders |-> orders,
           total_expected_profit |-> Round2(total_profit),
           orders_blocked |-> Cardinality(blocked),
           orders_allowed |-> Cardinality(sample) - Cardinality(blocked),
           avg_risk_blocked |->
               IF blocked # {} THEN Round2(MeanOver(risks, blocked)) ELSE RInt(0),
           avg_risk_allowed |->
               IF allowed # {} THEN Round2(MeanOver(risks, allowed)) ELSE RInt(0)]

SimulatePolicy ==
    /\ resp = NoResp
    /\ \E req \in PolicyRequests : resp' = simulate_policy(req, df)
    /\ UNCHANGED <<now, cached_df, cache_timestamp, call, df>>

(***************************************************************************)
(* POST /find-optimal-threshold                                            *)
(***************************************************************************)
OptimalRequests ==
    [return_processing_cost : {10}, conversion_impact : {Rat(2, 10)},
     sample_size : {1, 1000}]

\* list(range(0, 101, 5))
tau_values == [k \in 1..21 |-> 5 * (k - 1)]

\* obj.name in Python: a dict has items, not attributes.
HasAttr(obj, name) == obj.pytype # "dict" /\ name \in DOMAIN obj

\* max(results, key=lambda x: x['expected_profit']): the first element of
\* the list whose key no later or earlier element exceeds.
MaxByProfit(results) ==
    LET best == CHOOSE k \in DOMAIN results :
                  /\ \A j \in DOMAIN results :
                        RLe(results[j].expected_profit, results[k].expected_profit)
                  /\ \A j \in 1..(k - 1) :
                        RLt(results[j].expected_profit, results[k].expected_profit)
    IN  results[best]

RECURSIVE GridSearch(_, _, _, _)
\* The loop over tau_values from position k on, results holding the
\* candidates appended so far.
GridSearch(p, t, k, results) ==
    IF k > Len(tau_values)
    THEN LET optimal_result == MaxByProfit(results)
         IN  [kind |-> "optimal", status |-> 200, success |-> TRUE,
              optimal_tau |-> optimal_result.tau,
              max_expected_profit |-> Round2(optimal_result.expected_profit),
              orders_blocked_at_optimal |-> optimal_result.orders_blocked,
              simulation_results |-> results,
              evaluated |-> k - 1]
    ELSE LET sim_request == [threshold_tau |-> tau_values[k],
                             return_processing_cost |-> p.return_processing_cost,
                             conversion_impact |-> p.conversion_impact,
                             sample_size |-> p.sample_size]
             sim_result == simulate_policy(sim_request, t)
         IN  IF sim_result.status # 200
             THEN \* the HTTPException of simulate_policy, caught by the
                  \* except clause of find_optimal_threshold
                  [kind |-> "optimal", status |-> 500, success |-> FALSE,
                   error |-> "HTTPException500", evaluated |-> k]
             ELSE IF ~HasAttr(sim_result, "total_expected_profit")
             THEN \* sim_result.total_expected_profit on the dict that
                  \* simulate_policy returns
                  [kind |-> "optimal", status |-> 500, success |-> FALSE,
                   error |-> "AttributeError", evaluated |-> k]
             ELSE GridSearch(p, t, k + 1,
                     Append(results,
                            [tau |-> tau_values[k],
                             expected_profit |-> sim_result.total_expected_profit,
                             orders_blocked |-> sim_result.orders_blocked,
                             orders_allowed |-> sim_result.orders_allowed]))

find_optimal_threshold(p, t) == GridSearch(p, t, 1, <<>>)

FindOptimalThreshold ==
    /\ resp = NoResp
    /\ \E p \in OptimalRequests : resp' = find_optimal_threshold(p, df)
    /\ UNCHANGED <<now, cached_df, cache_timestamp, call, df>>

(***************************************************************************)
(* GET /risk-distribution                                                  *)
(***************************************************************************)
get_risk_distribution(sample_size, t) ==
    IF Empty(t)
    THEN Http500("distribution", "HTTPException404")
    ELSE IF ~t.flagged
    THEN Http500("distribution", "KeyError")
    ELSE IF df_positive(t) = {}
    THEN Http500("distribution", "HTTPException404")
    ELSE IF Cardinality(df_positive(t)) > sample_size /\ sample_size < 0
    THEN Http500("distribution", "ValueError")
    ELSE
      LET sample == df_sample(t, sample_size)
          risk_scores == [i \in sample |-> RowRisk(t, i)]
          Between(lo, hi) ==
              Cardinality({ i \in sample : /\ RLe(RInt(lo), risk_scores[i])
                                           /\ RLt(risk_scores[i], RInt(hi)) })
      IN  [kind |-> "distribution", status |-> 200, success |-> TRUE,
           sample_size |-> Cardinality(sample),
           risk_scores |-> risk_scores,
           distribution |->
               [b0_20 |-> Between(0, 20), b20_40 |-> Between(20, 40),
                b40_60 |-> Between(40, 60), b60_80 |-> Between(60, 80),
                b80_100 |->
                    Cardinality({ i \in sample : /\ RLe(RInt(80), risk_scores[i])
                                                 /\ RLe(risk_scores[i], RInt(100)) })],
           mean_risk |->
               IF sample # {} THEN Round2(MeanOver(risk_scores, sample)) ELSE RInt(0),
           overall_return_rate |-> Round2(ReturnedShare(t, Idx(t)))]

GetRiskDistribution ==
    /\ resp = NoResp
    /\ \E n \in {1, 1000} : resp' = get_risk_distribution(n, df)
    /\ UNCHANGED <<now, cached_df, cache_timestamp, call, df>>

\* The response is sent; the service waits for the next request.
Respond ==
    /\ resp # NoResp
    /\ resp' = NoResp
    /\ UNCHANGED <<now, cached_df, cache_timestamp, call, df>>

InitInventory ==
    /\ now = 0
    /\ cached_df = [s \in Services |-> None]
    /\ cache_timestamp = [s \in Services |-> NoTime]
    /\ call = NoCall
    /\ df \in InventoryTables
    /\ resp = NoResp

NextInventory ==
    \/ CalculateRiskScore
    \/ SimulatePolicy
    \/ FindOptimalThreshold
    \/ GetRiskDistribution
    \/ Respond

SpecInventory == InitInventory /\ [][NextInventory]_vars

(***************************************************************************)
(* The transaction table of the marketing service (marketing_api.py): the  *)
(* cleaned, non-cancelled invoice lines get_transactions_df returns.       *)
(* InvoiceDate is a timestamp in seconds.  Each customer of a table has    *)
(* one of a few purchase histories.                                        *)
(***************************************************************************)
\* The tables of the model hold at most MaxCustomers customers.
MaxCustomers == 5
MinCustomers == MaxCustomers - 1

\* The timestamp of a customer's last invoice: day 0 at 00:00 and at 12:00,
\* and day 2 at 00:00.
LastDates == << 0, 12 * 60 * 60, 2 * SecondsPerDay >>
\* The number of invoices of a customer; all but the last are of day 0.
Frequencies == << 1, 2 >>
\* The revenue of each invoice of a customer.
Revenues == << Rat(1, 100), RInt(5) >>

NumHistories == Len(LastDates) * Len(Frequencies) * Len(Revenues)

History(k) ==
    LET a == k \div Len(LastDates)
        b == a \div Len(Frequencies)
    IN  [last |-> LastDates[(k % Len(LastDates)) + 1],
         freq |-> Frequencies[(a % Len(Frequencies)) + 1],
         revenue |-> Revenues[(b % Len(Revenues)) + 1]]

\* The invoice lines of customer c with history h: invoice j of c is <<c, j>>.
HistoryRows(c, h) ==
    { [InvoiceNo |-> <<c, j>>, CustomerID |-> c,
       InvoiceDate |-> IF j = h.freq THEN h.last ELSE 0,
       Revenue |-> h.revenue] : j \in 1..h.freq }

\* The tables of n customers: customers are interchangeable, so one order of
\* the histories stands for each multiset.
MarketingTables ==
    UNION { { UNION { HistoryRows(c, History(ks[c])) : c \in 1..n } :
                ks \in { f \in [1..n -> 0..(NumHistories - 1)] :
                           \A i \in 1..n : i < n => f[i] <= f[i + 1] } } :
            n \in MinCustomers..MaxCustomers }

\* A start_date / end_date of a request: a day, or NoDate when not given.
NoDate == 0 - 1

\* filter_by_date_range comparing with end_date 00:00:00.
filter_by_date_range_EndExclusive(rows, start_date, end_date) ==
    { r \in rows :
        /\ start_date # NoDate => r.InvoiceDate >= start_date * SecondsPerDay
        /\ end_date # NoDate => r.InvoiceDate <= end_date * SecondsPerDay }

\* filter_by_date_range: InvoiceDate >= start_date 00:00:00 and
\* InvoiceDate <= end_date + 1 day - 1 second.
filter_by_date_range(rows, start_date, end_date) ==
    { r \in rows :
        /\ start_date # NoDate => r.InvoiceDate >= start_date * SecondsPerDay
        /\ end_date # NoDate =>
              r.InvoiceDate <= end_date * SecondsPerDay + SecondsPerDay - 1 }

RECURSIVE SetMax(_)
SetMax(S) ==
    LET x == CHOOSE y \in S : TRUE
    IN  IF S = {x} THEN x
        ELSE LET m == SetMax(S \ {x}) IN IF m > x THEN m ELSE x

\* timedelta.days of a non-negative timedelta of d seconds
TimedeltaDays(d) == d \div SecondsPerDay

ComputeRfm_NoExtraDay(rows) ==
    LET reference_date == SetMax({ r.InvoiceDate : r \in rows })
        customers == { r.CustomerID : r \in rows }
        Lines(c) == { r \in rows : r.CustomerID = c }
        Invoices(c) == { r.InvoiceNo : r \in Lines(c) }
    IN  [c \in customers |->
            [Recency |->
                 TimedeltaDays(reference_date
                                 - SetMax({ r.InvoiceDate : r \in Lines(c) })),
             Frequency |-> Cardinality(Invoices(c)),
             Monetary |->
                 SumOver([i \in Invoices(c) |->
                             (CHOOSE r \in Lines(c) : r.InvoiceNo = i).Revenue],
                         Invoices(c))]]

\* df.groupby('CustomerID').agg(Recency, Frequency, Monetary): one row per
\* customer of the lines.
ComputeRfm(rows) ==
    LET reference_date == SetMax({ r.InvoiceDate : r \in rows }) + SecondsPerDay
        customers == { r.CustomerID : r \in rows }
        Lines(c) == { r \in rows : r.CustomerID = c }
        Invoices(c) == { r.InvoiceNo : r \in Lines(c) }
    IN  [c \in customers |->
            [Recency |->
                 TimedeltaDays(reference_date
                                 - SetMax({ r.InvoiceDate : r \in Lines(c) })),
             Frequency |-> Cardinality(Invoices(c)),
             Monetary |->
                 \* the lines of the model are one per invoice
                 SumOver([i \in Invoices(c) |->
                             (CHOOSE r \in Lines(c) : r.InvoiceNo = i).Revenue],
                         Invoices(c))]]

RECURSIVE SortedOver(_, _)
\* The values v[c], c in D, in ascending order.
SortedOver(v, D) ==
    IF D = {} THEN <<>>
    ELSE LET c == CHOOSE c \in D : \A d \in D : RLe(v[c], v[d])
         IN  <<v[c]>> \o SortedOver(v, D \ {c})

Sorted(v) == SortedOver(v, DOMAIN v)

\* Series.quantile(k / 4) with linear interpolation, of the non-empty v.
Quantile(v, k) ==
    LET x == Sorted(v)
        n == Len(x)
        pos == (n - 1) * k
        lo == pos \div 4
        hi == IF pos % 4 = 0 THEN lo ELSE lo + 1
    IN  RAdd(x[lo + 1], RMul(RSub(x[hi + 1], x[lo + 1]), Rat(pos % 4, 4)))

calculate_quantiles(rfm) ==
    LET Q(v) == [q25 |-> Round2(Quantile(v, 1)), q50 |-> Round2(Quantile(v, 2)),
                 q75 |-> Round2(Quantile(v, 3))]
    IN  [recency |-> Q([c \in DOMAIN rfm |-> RInt(rfm[c].Recency)]),
         frequency |-> Q([c \in DOMAIN rfm |-> RInt(rfm[c].Frequency)]),
         monetary |-> Q([c \in DOMAIN rfm |-> rfm[c].Monetary])]

SegmentNames == << "Champions", "Loyal", "At-Risk", "Hibernating", "Regulars" >>

\* segment_label with the At-Risk and Hibernating rules tested in the other order.
segment_label_Reordered(row, quantiles) ==
    LET R == RInt(row.Recency)
        F == RInt(row.Frequency)
        q == quantiles
    IN  IF /\ RLe(R, q.recency.q25) /\ RLe(q.frequency.q75, F)
           /\ RLe(q.monetary.q75, row.Monetary)
        THEN "Champions"
        ELSE IF RLe(R, q.recency.q50) /\ RLe(q.frequency.q50, F) THEN "Loyal"
        ELSE IF RLe(q.recency.q50, R) /\ RLe(F, q.frequency.q50) THEN "Hibernating"
        ELSE IF RLe(q.recency.q75, R) /\ RLe(F, q.frequency.q25) THEN "At-Risk"
        ELSE "Regulars"

\* segment_label without its default.
segment_label_NoDefault(row, quantiles) ==
    LET R == RInt(row.Recency)
        F == RInt(row.Frequency)
        q == quantiles
    IN  IF /\ RLe(R, q.recency.q25) /\ RLe(q.frequency.q75, F)
           /\ RLe(q.monetary.q75, row.Monetary)
        THEN "Champions"
        ELSE IF RLe(R, q.recency.q50) /\ RLe(q.frequency.q50, F) THEN "Loyal"
        ELSE IF RLe(q.recency.q75, R) /\ RLe(F, q.frequency.q25) THEN "At-Risk"
        ELSE IF RLe(q.recency.q50, R) /\ RLe(F, q.frequency.q50) THEN "Hibernating"
        ELSE None

segment_label(row, quantiles) ==
    LET r_q25 == quantiles.recency.q25
        r_q50 == quantiles.recency.q50
        r_q75 == quantiles.recency.q75
        f_q25 == quantiles.frequency.q25
        f_q50 == quantiles.frequency.q50
        f_q75 == quantiles.frequency.q75
        m_q75 == quantiles.monetary.q75
        Recency == RInt(row.Recency)
        Frequency == RInt(row.Frequency)
    IN  IF /\ RLe(Recency, r_q25)
           /\ RLe(f_q75, Frequency)
           /\ RLe(m_q75, row.Monetary)
        THEN "Champions"
        ELSE IF RLe(Recency, r_q50) /\ RLe(f_q50, Frequency)
        THEN "Loyal"
        ELSE IF RLe(r_q75, Recency) /\ RLe(Frequency, f_q25)
        THEN "At-Risk"
        ELSE IF RLe(r_q50, Recency) /\ RLe(Frequency, f_q50)
        THEN "Hibernating"
        ELSE "Regulars"

RECURSIVE InsertDesc(_, _)
\* s, sorted by total_value descending, with x put after the elements of
\* its total_value (list.sort is stable).
InsertDesc(s, x) ==
    IF s = <<>> THEN <<x>>
    ELSE IF RLt(Head(s).total_value, x.total_value) THEN <<x>> \o s
    ELSE <<Head(s)>> \o InsertDesc(Tail(s), x)

RECURSIVE SortDesc(_, _)
\* segment_summary.sort(key=lambda x: x['total_value'], reverse=True)
SortDesc(s, k) == IF k = 0 THEN <<>> ELSE InsertDesc(SortDesc(s, k - 1), s[k])

\* The least number of customers run_segmentation accepts.
MinSegmentationCustomers == 5

(***************************************************************************)
(* POST /run-segmentation                                                  *)
(***************************************************************************)
SegmentationRequests == [start_date : {NoDate, 1}, end_date : {NoDate, 0, 1}]

run_segmentation(req, rows) ==
    IF rows = {}
    THEN Http500("segmentation", "HTTPException404")
    ELSE
      LET filtered == IF req.start_date # NoDate \/ req.end_date # NoDate
                      THEN filter_by_date_range(rows, req.start_date, req.end_date)
                      ELSE rows
      IN  IF filtered = {}
          THEN Http500("segmentation", "HTTPException404")
          ELSE
            LET rfm == ComputeRfm(filtered)
            IN  IF Cardinality(DOMAIN rfm) < MinSegmentationCustomers
                THEN Http500("segmentation", "HTTPException400")
                ELSE
                  LET quantiles == calculate_quantiles(rfm)
                      SegmentName == [c \in DOMAIN rfm |->
                                         segment_label(rfm[c], quantiles)]
                      seg_data(name) == { c \in DOMAIN rfm : SegmentName[c] = name }
                      present == SelectSeq(SegmentNames,
                                           LAMBDA name : seg_data(name) # {})
                      segment_summary ==
                          [k \in DOMAIN present |->
                              [segment_name |-> present[k],
                               customer_count |-> Cardinality(seg_data(present[k])),
                               total_value |->
                                   Round2(SumOver([c \in seg_data(present[k]) |->
                                                      rfm[c].Monetary],
                                                  seg_data(present[k])))]]
                  IN  [kind |-> "segmentation", status |-> 200, success |-> TRUE,
                       start_date |-> req.start_date, end_date |-> req.end_date,
                       rfm |-> rfm,
                       SegmentName |-> SegmentName,
                       n_segments |-> Len(segment_summary),
                       total_customers |-> Cardinality(DOMAIN rfm),
                       quantiles |-> quantiles,
                       segments |-> SortDesc(segment_summary, Len(segment_summary))]

RunSegmentation ==
    /\ resp = NoResp
    /\ \E req \in SegmentationRequests : resp' = run_segmentation(req, df.rows)
    /\ UNCHANGED <<now, cached_df, cache_timestamp, call, df>>

(***************************************************************************)
(* POST /calculate-rfm and POST /calculate-rfm-advanced, the latter for    *)
(* requests that do not save to the database.  The R, F and M scores       *)
(* (pd.qcut with labels=False and duplicates='drop', which raises for no   *)
(* column of numbers) are part of the saved records only.                  *)
(***************************************************************************)
\* The averages of the summary of an RFM table.
RfmAverages(rfm) ==
    [avg_recency |->
         Round2(MeanOver([c \in DOMAIN rfm |-> RInt(rfm[c].Recency)], DOMAIN rfm)),
     avg_frequency |->
         Round2(MeanOver([c \in DOMAIN rfm |-> RInt(rfm[c].Frequency)], DOMAIN rfm)),
     avg_monetary |->
         Round2(MeanOver([c \in DOMAIN rfm |-> rfm[c].Monetary], DOMAIN rfm))]

calculate_rfm(rows) ==
    IF rows = {}
    THEN Http500("rfm", "HTTPException404")
    ELSE LET rfm == ComputeRfm(rows)
         IN  [kind |-> "rfm", status |-> 200, success |-> TRUE,
              start_date |-> NoDate, end_date |-> NoDate,
              rfm |-> rfm,
              customers_analyzed |-> Cardinality(DOMAIN rfm),
              summary |-> RfmAverages(rfm)]

CalculateRfm ==
    /\ resp = NoResp
    /\ resp' = calculate_rfm(df.rows)
    /\ UNCHANGED <<now, cached_df, cache_timestamp, call, df>>

RFMRequests ==
    [start_date : {NoDate, 1}, end_date : {NoDate, 0, 1}, save_to_db : {FALSE}]

calculate_rfm_advanced(req, rows) ==
    IF rows = {}
    THEN Http500("rfm_advanced", "HTTPException404")
    ELSE
      LET filtered == IF req.start_date # NoDate \/ req.end_date # NoDate
                      THEN filter_by_date_range(rows, req.start_date, req.end_date)
                      ELSE rows
      IN  IF filtered = {}
          THEN Http500("rfm_advanced", "HTTPException404")
          ELSE
            LET rfm == ComputeRfm(filtered)
                quantiles == calculate_quantiles(rfm)
                dates == { r.InvoiceDate : r \in filtered }
                Median(v) == Round2(Quantile(v, 2))
            IN  [kind |-> "rfm_advanced", status |-> 200, success |-> TRUE,
                 start_date |-> req.start_date, end_date |-> req.end_date,
                 rfm |-> rfm,
                 customers_analyzed |-> Cardinality(DOMAIN rfm),
                 total_days |-> TimedeltaDays(SetMax(dates)
                                                + SetMax({ 0 - d : d \in dates })),
                 quantiles |-> quantiles,
                 summary |->
                     [averages |-> RfmAverages(rfm),
                      median_recency |->
                          Median([c \in DOMAIN rfm |-> RInt(rfm[c].Recency)]),
                      median_frequency |->
                          Median([c \in DOMAIN rfm |-> RInt(rfm[c].Frequency)]),
                      median_monetary |->
                          Median([c \in DOMAIN rfm |-> rfm[c].Monetary])]]

CalculateRfmAdvanced ==
    /\ resp = NoResp
    /\ \E req \in RFMRequests : resp' = calculate_rfm_advanced(req, df.rows)
    /\ UNCHANGED <<now, cached_df, cache_timestamp, call, df>>

InitSegmentation ==
    /\ now = 0
    /\ cached_df = [s \in Services |-> None]
    /\ cache_timestamp = [s \in Services |-> NoTime]
    /\ call = NoCall
    /\ df \in { [rows |-> rs] : rs \in MarketingTables }
    /\ resp = NoResp

NextSegmentation ==
    \/ RunSegmentation
    \/ CalculateRfm
    \/ CalculateRfmAdvanced
    \/ Respond

SpecSegmentation == InitSegmentation /\ [][NextSegmentation]_vars

(***************************************************************************)
(* The transaction table the basket analyses read (marketing_api.py        *)
(* get_transactions_df, sales_manager_api.py TRANSACTION_DATA): cleaned    *)
(* lines, Quantity > 0 and UnitPrice > 0, in file order.  A product is     *)
(* named by its StockCode; its Description is one-to-one with it.          *)
(***************************************************************************)
\* The tables of the model hold at most MaxInvoices invoices.
MaxInvoices == 3

\* The products, in column order.
Products == << "X", "Y", "Z" >>
ProductSet == { Products[k] : k \in DOMAIN Products }
Column(p) == CHOOSE k \in DOMAIN Products : Products[k] = p

\* The average UnitPrice of a product.
ProductPrice == [p \in ProductSet |-> IF p = "Y" THEN 10 ELSE 5]

RECURSIVE InvoiceLines(_, _, _)
\* The lines of invoice i buying the products of items from column k on:
\* 2 units of X in the first invoice, 1 unit in every other line; invoice i
\* is of date i.
InvoiceLines(i, items, k) ==
    IF k > Len(Products) THEN <<>>
    ELSE (IF Products[k] \in items
          THEN << [InvoiceNo |-> i, StockCode |-> Products[k],
                   Quantity |-> IF i = 1 /\ Products[k] = "X" THEN 2 ELSE 1,
                   UnitPrice |-> ProductPrice[Products[k]],
                   InvoiceDate |-> i] >>
          ELSE <<>>) \o InvoiceLines(i, items, k + 1)

RECURSIVE TableLines(_, _)
\* The lines of the invoices 1..n, invoice i buying content[i].
TableLines(content, n) ==
    IF n = 0 THEN <<>>
    ELSE TableLines(content, n - 1) \o InvoiceLines(n, content[n], 1)

\* The first line of a file is entered at most MaxRepeats more times.
MaxRepeats == 2

\* The tables: 1..MaxInvoices invoices of one or more products each,
\* followed by repeat more entries of the first line of the file.
BasketTables ==
    UNION { { [rows |-> TableLines(content, n)
                          \o [k \in 1..repeat |-> TableLines(content, n)[1]]] :
                content \in [1..n -> (SUBSET ProductSet) \ {{}}],
                repeat \in 0..MaxRepeats } :
            n \in 1..MaxInvoices }

RECURSIVE SumInt(_, _)
\* The sum of f[i] (integers) over i in I.
SumInt(f, I) ==
    IF I = {} THEN 0
    ELSE LET i == CHOOSE j \in I : TRUE IN f[i] + SumInt(f, I \ {i})

\* df['StockCode'].value_counts(): the number of lines of each product.
value_counts(rows) ==
    [p \in { rows[i].StockCode : i \in DOMAIN rows } |->
        Cardinality({ i \in DOMAIN rows : rows[i].StockCode = p })]

\* The outcomes of product_counts.head(n).index: n products of the largest
\* counts; value_counts leaves the order of equal counts open.
HeadChoices(counts, n) ==
    { T \in SUBSET DOMAIN counts :
        /\ Cardinality(T) = IF Cardinality(DOMAIN counts) < n
                            THEN Cardinality(DOMAIN counts) ELSE n
        /\ \A a \in T : \A b \in (DOMAIN counts) \ T : counts[a] >= counts[b] }

\* df[df['StockCode'].isin(top_products)]
IsIn(rows, top_products) ==
    SelectSeq(rows, LAMBDA r : r.StockCode \in top_products)

\* df.nlargest(n, 'InvoiceDate'): the n lines of the latest InvoiceDate, the
\* earlier line of the file first among equal dates (keep='first').
nlargest(rows, n) ==
    LET Before(j, i) ==
            \/ rows[j].InvoiceDate > rows[i].InvoiceDate
            \/ rows[j].InvoiceDate = rows[i].InvoiceDate /\ j < i
        Rank(i) == Cardinality({ j \in DOMAIN rows : Before(j, i) })
        kept == { i \in DOMAIN rows : Rank(i) < n }
        m == Cardinality(kept)
    IN  [k \in 1..m |-> rows[CHOOSE i \in kept : Rank(i) = k - 1]]

\* lambda x: 1 if x > 1 else 0
Encode_AboveOne(x) == IF x > 1 THEN 1 ELSE 0

\* basket.map(lambda x: 1 if x > 0 else 0)
Encode(x) == IF x > 0 THEN 1 ELSE 0

\* groupby(['InvoiceNo', 'StockCode'])['Quantity'].sum().unstack().fillna(0)
\* and its encoding: one row per invoice of the lines, one column per
\* product of the lines.
basket_encoded(rows) ==
    LET invoices == { rows[i].InvoiceNo : i \in DOMAIN rows }
        columns == { rows[i].StockCode : i \in DOMAIN rows }
        Cell(inv, p) == { i \in DOMAIN rows :
                            rows[i].InvoiceNo = inv /\ rows[i].StockCode = p }
    IN  [index |-> invoices, columns |-> columns,
         cell |-> [inv \in invoices |-> [p \in columns |->
                     Encode(SumInt([i \in Cell(inv, p) |-> rows[i].Quantity],
                                   Cell(inv, p)))]]]

(***************************************************************************)
(* Itemset mining and rule generation: apriori and association_rules of    *)
(* mlxtend.frequent_patterns, as the analyses call them.                   *)
(***************************************************************************)
\* max_len of a call that sets none
NoCap == 0

\* The share of the rows of the basket matrix B holding every product of S.
Support(B, S) ==
    Rat(Cardinality({ inv \in B.index : \A p \in S : B.cell[inv][p] = 1 }),
        Cardinality(B.index))

\* The candidates of the next level: each itemset of the level extended by
\* a product of a later column that occurs in the level.
Candidates(level) ==
    { S \cup {c} : <<S, c>> \in
        { sc \in level \X (UNION level) :
            \A p \in sc[1] : Column(sc[2]) > Column(p) } }

RECURSIVE FrequentFrom(_, _, _, _, _)
\* The frequent itemsets of the levels k and above, level being level k.
FrequentFrom(B, min_support, max_len, level, k) ==
    IF level = {} THEN {}
    ELSE level \cup
         (IF max_len # NoCap /\ k >= max_len THEN {}
          ELSE FrequentFrom(B, min_support, max_len,
                   { S \in Candidates(level) : RLe(min_support, Support(B, S)) },
                   k + 1))

\* apriori(basket_encoded, min_support, use_colnames=True, max_len)
apriori(B, min_support, max_len) ==
    { [itemsets |-> S, support |-> Support(B, S)] :
        S \in FrequentFrom(B, min_support, max_len,
                  { {p} : p \in { q \in B.columns :
                                    RLe(min_support, Support(B, {q})) } }, 1) }

\* association_rules(frequent_itemsets, metric="confidence", min_threshold)
association_rules(frequent_itemsets, min_threshold) ==
    LET sup(S) == (CHOOSE f \in frequent_itemsets : f.itemsets = S).support
        all == { [antecedents |-> A, consequents |-> f.itemsets \ A,
                  support |-> f.support,
                  confidence |-> RDiv(f.support, sup(A)),
                  lift |-> RDiv(RDiv(f.support, sup(A)), sup(f.itemsets \ A))] :
                 <<f, A>> \in { fa \in frequent_itemsets \X SUBSET ProductSet :
                                  /\ fa[2] # {} /\ fa[2] # fa[1].itemsets
                                  /\ fa[2] \subseteq fa[1].itemsets } }
    IN  { r \in all : RLe(min_threshold, r.confidence) }

RECURSIVE KeyAbove(_, _)
\* The tuple of sort keys a is above b in descending order, column by column.
KeyAbove(a, b) ==
    /\ a # <<>>
    /\ \/ RLt(Head(b), Head(a))
       \/ Head(a) = Head(b) /\ KeyAbove(Tail(a), Tail(b))

\* The outcomes of rules.sort_values(column, ascending=False).head(n), key[r]
\* being the values of the sort columns of rule r: the sort of one column
\* (quicksort) leaves the order of rules of equal keys open.
SortedHeadChoices(rules, key, n) ==
    LET m == IF Cardinality(rules) < n THEN Cardinality(rules) ELSE n
    IN  { s \in [1..m -> rules] :
            /\ \A i, j \in 1..m :
                  i < j => s[i] # s[j] /\ ~KeyAbove(key[s[j]], key[s[i]])
            /\ \A r \in rules :
                  (\A i \in 1..m : s[i] # r)
                      => \A i \in 1..m : ~KeyAbove(key[r], key[s[i]]) }

\* The itemset I stands before the itemset J in the frame apriori returns:
\* shorter itemsets first, itemsets of one length in the order of their
\* columns.
ItemsetBefore(I, J) ==
    \/ Cardinality(I) < Cardinality(J)
    \/ /\ Cardinality(I) = Cardinality(J)
       /\ I # J
       /\ \E p \in I \ J : \A q \in J \ I : Column(p) < Column(q)

\* The rule a is listed before the rule b by association_rules, which goes
\* through the itemsets in the order of the frame; the order of the rules of
\* one itemset is left open.
ListedBefore(a, b) ==
    ItemsetBefore(a.antecedents \cup a.consequents,
                  b.antecedents \cup b.consequents)

\* The outcomes of rules.sort_values([columns], ascending=False).head(n) for
\* a list of columns, a stable sort: rules of equal keys stay in the order
\* they are listed in.
StableSortedHeadChoices(rules, key, n) ==
    { s \in SortedHeadChoices(rules, key, n) :
        /\ \A i, j \in DOMAIN s :
              (i < j /\ key[s[i]] = key[s[j]]) => ~ListedBefore(s[j], s[i])
        /\ \A r \in rules :
              (\A i \in DOMAIN s : s[i] # r)
                  => \A i \in DOMAIN s :
                         key[s[i]] = key[r] => ~ListedBefore(r, s[i]) }

\* list(itemset), in column order.
RECURSIVE ListOf(_, _)
ListOf(S, k) ==
    IF k > Len(Products) THEN <<>>
    ELSE (IF Products[k] \in S THEN << Products[k] >> ELSE <<>>)
             \o ListOf(S, k + 1)

Round4(x) == Round(x, 10000)

\* The loops without the break at rank > top_n.
Take_NoBreak(s, n) == s

\* The first n elements of s, all of s when it has fewer.
Take(s, n) == SubSeq(s, 1, IF Len(s) < n THEN Len(s) ELSE n)

(***************************************************************************)
(* POST /market-basket-analysis (marketing_api.py), for requests that set  *)
(* no date range.                                                          *)
(***************************************************************************)
\* The vocabulary cap and the row cap of the analysis, 200 products and
\* 50000 lines in the source, at the scale of the tables of the model.
MarketingTopProducts == 3
MarketingRowCap == 5

BasketRequests ==
    [min_support : {Rat(1, 2), Rat(1, 3)}, min_confidence : {Rat(1, 2), RInt(1)},
     top_n : {1, 2}]

\* min_threshold=request.min_support
min_threshold_Support(req) == req.min_support

\* The min_threshold the analysis passes to association_rules.
min_threshold(req) == req.min_confidence

\* The sort columns of rules.sort_values(['lift', 'confidence'], ascending=False)
ByLift(rules) == [r \in rules |-> << r.lift, r.confidence >>]

\* The answers of the analysis, one for each outcome of the two orderings
\* the libraries leave open.
market_basket_analysis(req, rows) ==
    IF rows = <<>>
    THEN { Http500("basket", "HTTPException404") }
    ELSE
      UNION {
        LET capped == nlargest(IsIn(rows, top_products), MarketingRowCap)
            B == basket_encoded(capped)
            frequent_itemsets == apriori(B, req.min_support, NoCap)
            rules == association_rules(frequent_itemsets, min_threshold(req))
            Lines(ps) == { i \in DOMAIN capped : capped[i].StockCode \in ps }
            Bundle(rule) ==
                [antecedents |-> ListOf(rule.antecedents, 1),
                 consequents |-> ListOf(rule.consequents, 1),
                 support |-> Round4(rule.support),
                 confidence |-> Round4(rule.confidence),
                 lift |-> Round4(rule.lift),
                 expected_revenue |->
                     Round2(RMul(RMul(MeanOver(
                                [i \in Lines(rule.consequents) |->
                                    RInt(capped[i].Quantity * capped[i].UnitPrice)],
                                Lines(rule.consequents)),
                              RMul(rule.confidence, rule.support)),
                            RInt(Len(capped))))]
            Answer(top) ==
                [kind |-> "basket", status |-> 200, success |-> TRUE,
                 entry |-> "market_basket_analysis",
                 top_products |-> top_products, lines |-> capped,
                 basket |-> B, frequent_itemsets |-> frequent_itemsets,
                 min_support |-> req.min_support, max_len |-> NoCap,
                 min_confidence |-> req.min_confidence, top_n |-> req.top_n,
                 rules |-> rules, retained |-> rules, ranked |-> top,
                 total_rules |-> Len(top),
                 bundles |-> [k \in DOMAIN top |-> Bundle(top[k])]]
        IN  IF frequent_itemsets = {} \/ rules = {}
            THEN { Answer(<<>>) }
            ELSE { Answer(top) :
                     top \in StableSortedHeadChoices(rules, ByLift(rules),
                                                     req.top_n) }
        : top_products \in HeadChoices(value_counts(rows), MarketingTopProducts) }

MarketBasketAnalysis ==
    /\ resp = NoResp
    /\ \E req \in BasketRequests : resp' \in market_basket_analysis(req, df.rows)
    /\ UNCHANGED <<now, cached_df, cache_timestamp, call, df>>

(***************************************************************************)
(* POST /generate-recommendations (sales_manager_api.py), for requests     *)
(* that name no customer.                                                  *)
(***************************************************************************)
\* The vocabulary cap and the row cap, 100 products and 20000 lines in the
\* source, at the scale of the tables of the model.
SalesTopProducts == 2
SalesRowCap == 4

\* The itemset length cap of the call of apriori.
SalesMaxLen == 2

RecommendationRequests ==
    [stock_code : {"X", "Z", "Q"}, min_support : {Rat(1, 2), Rat(1, 3)},
     confidence_threshold : {Rat(1, 2)}, top_n : {1, 2, 3}]

\* The None search_product returns, read as a line.
NoProduct == [StockCode |-> None]

\* search_product: the first line of the product named, None when there is none.
search_product(search_term, rows) ==
    IF \E i \in DOMAIN rows : rows[i].StockCode = search_term
    THEN rows[CHOOSE i \in DOMAIN rows :
                /\ rows[i].StockCode = search_term
                /\ \A j \in 1..(i - 1) : rows[j].StockCode # search_term]
    ELSE NoProduct

\* relevant_rules['score'], the sort column of sort_values('score', ascending=False)
ByScore(rules) == [r \in rules |-> << RMul(r.confidence, r.lift) >>]

RECURSIVE Recommend(_, _, _)
\* The recommendations of the rules from rule k on, ranks counted from rank.
Recommend(rules, k, rank) ==
    IF k > Len(rules) THEN <<>>
    ELSE LET consequents == ListOf(rules[k].consequents, 1)
             recs == [j \in DOMAIN consequents |->
                        [rank |-> rank + j - 1,
                         product_code |-> consequents[j],
                         support |-> Round4(rules[k].support),
                         confidence |-> Round4(rules[k].confidence),
                         lift |-> Round4(rules[k].lift),
                         estimated_impact |->
                             Round2(RMul(RMul(rules[k].confidence,
                                              RInt(ProductPrice[consequents[j]])),
                                         RMul(rules[k].support, RInt(1000))))]]
         IN  recs \o Recommend(rules, k + 1, rank + Len(recs))

RelevantRules_EitherSide(rules, source_code) ==
    { r \in rules : source_code \in r.antecedents \cup r.consequents }

\* rules[rules['antecedents'].apply(lambda x: source_code in x)]
RelevantRules(rules, source_code) ==
    { r \in rules : source_code \in r.antecedents }

generate_recommendations(req, rows) ==
    IF rows = <<>>
    THEN { [kind |-> "recommendations", status |-> 404, success |-> FALSE,
            error |-> "HTTPException404"] }
    ELSE IF search_product(req.stock_code, rows).StockCode = None
    THEN { [kind |-> "recommendations", status |-> 404, success |-> FALSE,
            error |-> "product_not_found"] }
    ELSE
      UNION {
        LET source_code == search_product(req.stock_code, rows).StockCode
            top_products == head \cup {source_code}
            df_filtered == nlargest(IsIn(rows, top_products), SalesRowCap)
            B == basket_encoded(df_filtered)
            frequent_itemsets == apriori(B, req.min_support, SalesMaxLen)
            rules == association_rules(frequent_itemsets,
                                       req.confidence_threshold)
            relevant_rules == RelevantRules(rules, source_code)
            Answer(top) ==
                [kind |-> "recommendations", status |-> 200, success |-> TRUE,
                 entry |-> "sales_manager.generate_recommendations",
                 source_product |-> source_code,
                 top_products |-> top_products, lines |-> df_filtered,
                 basket |-> B, frequent_itemsets |-> frequent_itemsets,
                 min_support |-> req.min_support, max_len |-> SalesMaxLen,
                 min_confidence |-> req.confidence_threshold,
                 top_n |-> req.top_n,
                 rules |-> rules, retained |-> relevant_rules, ranked |-> top,
                 recommendations |-> Take(Recommend(top, 1, 1), req.top_n),
                 total_recommendations |->
                     Len(Take(Recommend(top, 1, 1), req.top_n))]
        IN  IF frequent_itemsets = {} \/ rules = {} \/ relevant_rules = {}
            THEN { Answer(<<>>) }
            ELSE { Answer(top) :
                     top \in SortedHeadChoices(relevant_rules,
                                               ByScore(relevant_rules),
                                               req.top_n) }
        : head \in HeadChoices(value_counts(rows), SalesTopProducts) }

GenerateRecommendations ==
    /\ resp = NoResp
    /\ \E req \in RecommendationRequests :
          resp' \in generate_recommendations(req, df.rows)
    /\ UNCHANGED <<now, cached_df, cache_timestamp, call, df>>

(***************************************************************************)
(* POST /generate-recommendations and GET /top-bundles (sales_api.py), for *)
(* requests that name no customer.                                         *)
(***************************************************************************)
\* The vocabulary caps and the row caps, 50 products and 10000 lines for the
\* recommendations, 100 products and 50000 lines for the bundles in the
\* source, at the scale of the tables of the model.
SalesApiTopProducts == 2
SalesApiRowCap == 4
BundlesTopProducts == 3
BundlesRowCap == 5

\* recommendation_reason of a rule
RecommendationReason(rule) ==
    IF RLt(RInt(3), rule.lift)
    THEN "Strong association - frequently bought together"
    ELSE IF RLt(Rat(7, 10), rule.confidence)
    THEN "High confidence - customers who buy this often buy that"
    ELSE "Good cross-sell opportunity"

RECURSIVE SalesRecommend(_, _, _)
\* The recommendations of the rules from rule k on, ranks counted from rank;
\* list(rule['consequents']) is taken in column order.
SalesRecommend(rules, k, rank) ==
    IF k > Len(rules) THEN <<>>
    ELSE LET consequents == ListOf(rules[k].consequents, 1)
             recs == [j \in DOMAIN consequents |->
                        [rank |-> rank + j - 1,
                         stock_code |-> consequents[j],
                         support |-> Round4(rules[k].support),
                         confidence |-> Round4(rules[k].confidence),
                         lift |-> Round4(rules[k].lift),
                         expected_impact |->
                             Round2(RMul(RMul(rules[k].confidence,
                                              RInt(ProductPrice[consequents[j]])),
                                         RMul(rules[k].support, RInt(1000)))),
                         recommendation_reason |->
                             RecommendationReason(rules[k])]]
         IN  recs \o SalesRecommend(rules, k + 1, rank + Len(recs))

sales_generate_recommendations(req, rows) ==
    IF rows = <<>>
    THEN { Http500("recommendations", "HTTPException404") }
    ELSE IF \A i \in DOMAIN rows : rows[i].StockCode # req.stock_code
    THEN { Http500("recommendations", "HTTPException404") }
    ELSE
      UNION {
        LET top_products == head \cup {req.stock_code}
            df_filtered == nlargest(IsIn(rows, top_products), SalesApiRowCap)
            B == basket_encoded(df_filtered)
            frequent_itemsets == apriori(B, req.min_support, NoCap)
            rules == association_rules(frequent_itemsets,
                                       req.confidence_threshold)
            relevant_rules == RelevantRules(rules, req.stock_code)
            Answer(top) ==
                [kind |-> "recommendations", status |-> 200, success |-> TRUE,
                 entry |-> "sales.generate_recommendations",
                 source_product |-> req.stock_code,
                 top_products |-> top_products, lines |-> df_filtered,
                 basket |-> B, frequent_itemsets |-> frequent_itemsets,
                 min_support |-> req.min_support, max_len |-> NoCap,
                 min_confidence |-> req.confidence_threshold,
                 top_n |-> req.top_n,
                 rules |-> rules, retained |-> relevant_rules, ranked |-> top,
                 recommendations |-> Take(SalesRecommend(top, 1, 1), req.top_n),
                 total_recommendations |->
                     Len(Take(SalesRecommend(top, 1, 1), req.top_n))]
        IN  IF frequent_itemsets = {} \/ rules = {} \/ relevant_rules = {}
            THEN { Answer(<<>>) }
            ELSE { Answer(top) :
                     top \in SortedHeadChoices(relevant_rules,
                                               ByScore(relevant_rules),
                                               req.top_n) }
        : head \in HeadChoices(value_counts(rows), SalesApiTopProducts) }

SalesGenerateRecommendations ==
    /\ resp = NoResp
    /\ \E req \in RecommendationRequests :
          resp' \in sales_generate_recommendations(req, df.rows)
    /\ UNCHANGED <<now, cached_df, cache_timestamp, call, df>>

TopBundlesRequests ==
    [min_support : {Rat(1, 2), Rat(1, 3)}, min_confidence : {Rat(1, 2)},
     top_n : {1, 2}]

get_top_bundles(req, rows) ==
    IF rows = <<>>
    THEN { Http500("bundles", "HTTPException404") }
    ELSE
      UNION {
        LET capped == nlargest(IsIn(rows, top_products), BundlesRowCap)
            B == basket_encoded(capped)
            frequent_itemsets == apriori(B, req.min_support, NoCap)
            rules == association_rules(frequent_itemsets, req.min_confidence)
            Bundle(top, k) ==
                [rank |-> k,
                 antecedent_codes |-> ListOf(top[k].antecedents, 1),
                 consequent_codes |-> ListOf(top[k].consequents, 1),
                 support |-> Round4(top[k].support),
                 confidence |-> Round4(top[k].confidence),
                 lift |-> Round4(top[k].lift),
                 score |-> Round4(RMul(top[k].confidence, top[k].lift))]
            Answer(top) ==
                [kind |-> "bundles", status |-> 200, success |-> TRUE,
                 entry |-> "sales.get_top_bundles",
                 top_products |-> top_products, lines |-> capped,
                 basket |-> B, frequent_itemsets |-> frequent_itemsets,
                 min_support |-> req.min_support, max_len |-> NoCap,
                 min_confidence |-> req.min_confidence, top_n |-> req.top_n,
                 rules |-> rules, retained |-> rules, ranked |-> top,
                 bundles |-> [k \in DOMAIN top |-> Bundle(top, k)],
                 total_bundles |-> Len(top)]
        IN  IF frequent_itemsets = {} \/ rules = {}
            THEN { Answer(<<>>) }
            ELSE { Answer(top) :
                     top \in SortedHeadChoices(rules, ByScore(rules), req.top_n) }
        : top_products \in HeadChoices(value_counts(rows), BundlesTopProducts) }

GetTopBundles ==
    /\ resp = NoResp
    /\ \E req \in TopBundlesRequests : resp' \in get_top_bundles(req, df.rows)
    /\ UNCHANGED <<now, cached_df, cache_timestamp, call, df>>

InitBasket ==
    /\ now = 0
    /\ cached_df = [s \in Services |-> None]
    /\ cache_timestamp = [s \in Services |-> NoTime]
    /\ call = NoCall
    /\ df \in BasketTables
    /\ resp = NoResp

NextBasket ==
    \/ MarketBasketAnalysis
    \/ GenerateRecommendations
    \/ SalesGenerateRecommendations
    \/ GetTopBundles
    \/ Respond

SpecBasket == InitBasket /\ [][NextBasket]_vars

(***************************************************************************)
(* The sales-manager service (sales_manager_api.py).  TRANSACTION_DATA is  *)
(* loaded once, when the module is imported, and every endpoint reads it;  *)
(* here df is that table: its lines and the names of its columns.  The     *)
(* dates of these lines are days counted from 1 January 2011, a Saturday.  *)
(***************************************************************************)
\* The lines of the file are of at most MaxManagerInvoices invoices.
MaxManagerInvoices == 2

ManagerCustomers == << 1, 2 >>
ManagerProducts == << "X", "Y" >>
ManagerDates == << 0, 45, 100 >>
\* pd.Timestamp.now(), in days, at the time of a request
Todays == { 101, 131 }

\* The columns of the table load_data returns.
LoadedColumns ==
    { "InvoiceNo", "StockCode", "Description", "Quantity", "InvoiceDate",
      "UnitPrice", "CustomerID", "Country", "Revenue" }

\* The lines of invoice i of customer c on day d buying items.
ManagerLines(i, c, d, items) ==
    SelectSeq([k \in 1..Len(ManagerProducts) |->
                  [InvoiceNo |-> i, CustomerID |-> c,
                   StockCode |-> ManagerProducts[k],
                   Quantity |-> IF ManagerProducts[k] = "X" THEN 2 ELSE 1,
                   UnitPrice |-> ProductPrice[ManagerProducts[k]],
                   InvoiceDate |-> d]],
              LAMBDA r : r.StockCode \in items)

ManagerInvoices ==
    [customer : { ManagerCustomers[k] : k \in DOMAIN ManagerCustomers },
     date : { ManagerDates[k] : k \in DOMAIN ManagerDates },
     items : (SUBSET { ManagerProducts[k] : k \in DOMAIN ManagerProducts }) \ {{}}]

RECURSIVE ManagerRows(_, _)
\* The lines of the invoices 1..n, invoice i being invs[i].
ManagerRows(invs, n) ==
    IF n = 0 THEN <<>>
    ELSE ManagerRows(invs, n - 1)
           \o ManagerLines(n, invs[n].customer, invs[n].date, invs[n].items)

\* The tables load_data returns: the lines of a file of one or more valid
\* invoices, with the loaded columns; or pd.DataFrame(), no line and no
\* column, when loading failed.
ManagerTables ==
    { [rows |-> <<>>, columns |-> {}] }
      \cup UNION { { [rows |-> ManagerRows(invs, n), columns |-> LoadedColumns] :
                       invs \in [1..n -> ManagerInvoices] } :
                   n \in 1..MaxManagerInvoices }

\* df['Quantity'] * df['UnitPrice'] of a line
LineRevenue(r) == r.Quantity * r.UnitPrice

\* The month (1..12) and the quarter of day d of 2011.
MonthOf(d) ==
    LET ends == << 31, 59, 90, 120, 151, 181, 212, 243, 273, 304, 334, 365 >>
    IN  CHOOSE m \in 1..12 : d < ends[m] /\ (m > 1 => d >= ends[m - 1])

QuarterOf(d) == ((MonthOf(d) - 1) \div 3) + 1

\* The Monday that starts the week of day d (to_period('W').start_time).
WeekStartOf(d) == d - ((d + 5) % 7)

\* data.groupby(key)['Revenue'].sum(): key is a function of the line.
RevenueBy(rows, key) ==
    [g \in { key[i] : i \in DOMAIN rows } |->
        SumInt([i \in DOMAIN rows |-> LineRevenue(rows[i])],
               { i \in DOMAIN rows : key[i] = g })]

\* The answer of an endpoint that read column name of a table without it.
KeyError(kind) == Http500(kind, "KeyError")

(***************************************************************************)
(* GET /revenue-forecast.  df is TRANSACTION_DATA itself, not a copy: the  *)
(* two column assignments are made on the shared table.                    *)
(***************************************************************************)
\* The columns of the table after the handler ran.
revenue_forecast_columns(t) ==
    IF "InvoiceDate" \in t.columns
    THEN t.columns \cup {"YearMonth", "Quarter"}
    ELSE t.columns

revenue_forecast_analysis(t) ==
    IF "InvoiceDate" \notin t.columns
    THEN KeyError("forecast")
    ELSE
      LET rows == t.rows
          invoices == RevenueBy(rows, [i \in DOMAIN rows |-> rows[i].InvoiceNo])
          total == SumInt([i \in DOMAIN rows |-> LineRevenue(rows[i])], DOMAIN rows)
      IN  [kind |-> "forecast", status |-> 200, success |-> TRUE,
           monthly_trend |->
               RevenueBy(rows, [i \in DOMAIN rows |-> MonthOf(rows[i].InvoiceDate)]),
           quarterly_revenue |->
               RevenueBy(rows, [i \in DOMAIN rows |-> QuarterOf(rows[i].InvoiceDate)]),
           top_revenue_products |->
               RevenueBy(rows, [i \in DOMAIN rows |-> rows[i].StockCode]),
           total_revenue |-> total,
           avg_basket_size |-> Rat(total, Cardinality(DOMAIN invoices))]

RevenueForecastAnalysis ==
    /\ resp = NoResp
    /\ resp' = revenue_forecast_analysis(df)
    /\ df' = [df EXCEPT !.columns = revenue_forecast_columns(df)]
    /\ UNCHANGED <<now, cached_df, cache_timestamp, call>>

(***************************************************************************)
(* GET /product-search                                                     *)
(***************************************************************************)
SearchQueries == { "X", "Q" }

\* The first line of each stock code that contains the query, ten at most.
product_search_autocomplete(query, t) ==
    IF "StockCode" \notin t.columns
    THEN KeyError("search")
    ELSE LET rows == t.rows
             matches == SelectSeq([i \in DOMAIN rows |-> i],
                           LAMBDA i : /\ rows[i].StockCode = query
                                      /\ \A j \in 1..(i - 1) :
                                            rows[j].StockCode # rows[i].StockCode)
         IN  [kind |-> "search", status |-> 200, success |-> TRUE,
              suggestions |->
                  [k \in DOMAIN Take(matches, 10) |->
                      [stock_code |-> rows[matches[k]].StockCode]]]

ProductSearchAutocomplete ==
    /\ resp = NoResp
    /\ \E query \in SearchQueries : resp' = product_search_autocomplete(query, df)
    /\ UNCHANGED <<now, cached_df, cache_timestamp, call, df>>

(***************************************************************************)
(* GET /deals and GET /leads                                               *)
(***************************************************************************)
\* df.groupby('CustomerID').agg(...).reset_index(): one row per customer, in
\* the order of the customer ids; row k has index k - 1.
customer_metrics(rows) ==
    LET customers == { rows[i].CustomerID : i \in DOMAIN rows }
        n == Cardinality(customers)
        order == CHOOSE s \in [1..n -> customers] :
                     \A a, b \in 1..n : a < b => s[a] < s[b]
        Lines(c) == { i \in DOMAIN rows : rows[i].CustomerID = c }
    IN  [k \in 1..n |->
            [idx |-> k - 1,
             CustomerID |-> order[k],
             TotalOrders |-> Cardinality({ rows[i].InvoiceNo : i \in Lines(order[k]) }),
             TotalRevenue |->
                 SumInt([i \in DOMAIN rows |-> LineRevenue(rows[i])], Lines(order[k])),
             LastPurchase |->
                 SetMax({ rows[i].InvoiceDate : i \in Lines(order[k]) }),
             UniqueProducts |->
                 Cardinality({ rows[i].StockCode : i \in Lines(order[k]) }),
             TotalQuantity |->
                 SumInt([i \in DOMAIN rows |-> rows[i].Quantity], Lines(order[k]))]]

\* frame.nlargest(n, column).iterrows(): the rows of the n largest keys, the
\* largest first, the earlier row first among equal keys.
LargestFirst(frame, key, n) ==
    LET Before(a, b) == RLt(key[b], key[a]) \/ (key[a] = key[b] /\ a < b)
        Rank(a) == Cardinality({ b \in DOMAIN frame : Before(b, a) })
        kept == { a \in DOMAIN frame : Rank(a) < n }
    IN  [k \in 1..Cardinality(kept) |->
            frame[CHOOSE a \in kept : Rank(a) = k - 1]]

\* The products of customer c of the largest quantities, three at most, in
\* the order of the stock codes among equal quantities.
customer_products(rows, c) ==
    LET codes == SelectSeq(ManagerProducts,
                    LAMBDA p : \E i \in DOMAIN rows :
                                  rows[i].CustomerID = c /\ rows[i].StockCode = p)
        qty == [k \in DOMAIN codes |->
                   RInt(SumInt([i \in DOMAIN rows |-> rows[i].Quantity],
                               { i \in DOMAIN rows :
                                   /\ rows[i].CustomerID = c
                                   /\ rows[i].StockCode = codes[k] }))]
    IN  LargestFirst(codes, qty, 3)

\* A filter that is None or empty, or a number that is None or 0, is not
\* applied.
NoFilter == ""

DealRequests ==
    [status : {NoFilter, "Active", "Pending"},
     min_value : {0, 12},
     stage : {NoFilter, "Closing"},
     today : Todays]

\* The deal of row of customer_metrics.
Deal(row, rows, today) ==
    LET days_since == today - row.LastPurchase
        avg_order == Rat(row.TotalRevenue, row.TotalOrders)
        state == IF days_since < 30 THEN << "Active", "Closing", 85 >>
                 ELSE IF days_since < 60 THEN << "Active", "Negotiation", 65 >>
                 ELSE IF days_since < 90 THEN << "Pending", "Proposal", 45 >>
                 ELSE << "Active", "Qualification", 30 >>
    IN  [deal_id |-> row.idx,
         customer_id |-> row.CustomerID,
         deal_value |-> Round2(RMul(avg_order, Rat(12, 10))),
         status |-> state[1],
         probability |-> state[3],
         expected_close_date |-> today + 30,
         products |-> customer_products(rows, row.CustomerID),
         last_contact |-> today - (days_since % 15),
         days_in_pipeline |-> IF days_since < 120 THEN days_since ELSE 120,
         stage |-> state[2]]

\* The filters of /deals.  The loop assigns the stage of the deal at hand to
\* the variable stage, the name of the stage parameter, before the filters
\* run: the stage test compares the stage of the deal with itself.
DealKept(deal, req) ==
    LET stage == deal.stage
    IN  /\ ~(req.status # NoFilter /\ deal.status # req.status)
        /\ ~(req.min_value # 0 /\ RLt(deal.deal_value, RInt(req.min_value)))
        /\ ~(deal.stage # stage)

get_active_deals(req, t) ==
    IF "CustomerID" \notin t.columns
    THEN KeyError("deals")
    ELSE
      LET metrics == customer_metrics(t.rows)
          top == LargestFirst(metrics,
                              [k \in DOMAIN metrics |-> RInt(metrics[k].TotalRevenue)],
                              20)
          deals == SelectSeq([k \in DOMAIN top |-> Deal(top[k], t.rows, req.today)],
                             LAMBDA deal : DealKept(deal, req))
          total_value == SumOver([k \in DOMAIN deals |-> deals[k].deal_value],
                                 DOMAIN deals)
      IN  [kind |-> "deals", status |-> 200, success |-> TRUE,
           filter |-> req,
           deals |-> deals,
           summary |->
               [total_deals |-> Len(deals),
                total_pipeline_value |-> Round2(total_value),
                weighted_pipeline_value |->
                    Round2(SumOver([k \in DOMAIN deals |->
                                       RMul(deals[k].deal_value,
                                            Rat(deals[k].probability, 100))],
                                   DOMAIN deals)),
                avg_deal_size |->
                    IF deals # <<>>
                    THEN Round2(RDiv(total_value, RInt(Len(deals)))) ELSE RInt(0),
                avg_probability |->
                    IF deals # <<>>
                    THEN Round(Rat(SumInt([k \in DOMAIN deals |-> deals[k].probability],
                                          DOMAIN deals),
                                   Len(deals)), 10)
                    ELSE RInt(0)]]

GetActiveDeals ==
    /\ resp = NoResp
    /\ \E req \in DealRequests : resp' = get_active_deals(req, df)
    /\ UNCHANGED <<now, cached_df, cache_timestamp, call, df>>

LeadRequests ==
    [status : {NoFilter, "Qualified", "New"},
     min_score : {0, 50},
     source : {NoFilter, "Website"},
     today : Todays]

sources ==
    << "Website", "Referral", "Email Campaign", "Social Media", "Cold Call",
       "Trade Show" >>

\* series.clip(0, 100)
Clip(x) == IF RLt(x, RInt(0)) THEN RInt(0)
           ELSE IF RLt(RInt(100), x) THEN RInt(100) ELSE x

\* The largest of the values v[k], k in the non-empty D.
MaxOver(v, D) == v[CHOOSE k \in D : \A j \in D : RLe(v[j], v[k])]

\* LeadScore of the rows of leads_df: recency 40%, revenue 30%, engagement
\* 30%, each relative to the largest value among the leads.
LeadScore(leads_df, today) ==
    LET D == DOMAIN leads_df
        days == [k \in D |-> RInt(today - leads_df[k].LastPurchase)]
        revenue == [k \in D |-> RInt(leads_df[k].TotalRevenue)]
        products == [k \in D |-> RInt(leads_df[k].UniqueProducts)]
        Share(v, k) == RMul(RDiv(v[k], MaxOver(v, D)), RInt(100))
    IN  [k \in D |->
            RAdd(RAdd(RMul(Clip(RSub(RInt(100), Share(days, k))), Rat(4, 10)),
                      RMul(Clip(Share(revenue, k)), Rat(3, 10))),
                 RMul(Clip(Share(products, k)), Rat(3, 10)))]

\* The lead of row of leads_df, of lead score lead_score.
Lead(row, lead_score, today) ==
    LET days_since == today - row.LastPurchase
        state == IF RLe(RInt(70), lead_score)
                 THEN << "Qualified", "Schedule demo call" >>
                 ELSE IF RLe(RInt(50), lead_score)
                 THEN << "Contacted", "Send product catalog" >>
                 ELSE IF RLe(RInt(30), lead_score)
                 THEN << "New", "Initial outreach email" >>
                 ELSE << "New", "Research and segment" >>
    IN  [lead_id |-> row.idx,
         customer_id |-> row.CustomerID,
         lead_score |-> Round(lead_score, 10),
         source |-> sources[(row.idx % Len(sources)) + 1],
         status |-> state[1],
         potential_value |-> Round2(RMul(RInt(row.TotalRevenue), Rat(15, 10))),
         last_activity |-> today - (days_since % 30),
         days_since_contact |-> IF days_since < 90 THEN days_since ELSE 90,
         next_action |-> state[2]]

\* The filters of /leads.  The status test compares lead.status with
\* status_val, the value lead.status was built from, not with the status
\* parameter.
LeadKept(lead, req) ==
    LET status_val == lead.status
    IN  /\ ~(req.status # NoFilter /\ lead.status # status_val)
        /\ ~(req.min_score # 0 /\ RLt(lead.lead_score, RInt(req.min_score)))
        /\ ~(req.source # NoFilter /\ lead.source # req.source)

get_lead_pipeline(req, t) ==
    IF "CustomerID" \notin t.columns
    THEN KeyError("leads")
    ELSE
      LET metrics == customer_metrics(t.rows)
          leads_df == SelectSeq(metrics,
                         LAMBDA m : m.TotalOrders >= 1 /\ m.TotalOrders <= 5)
      IN  IF leads_df = <<>>
          THEN \* nlargest(30, 'LeadScore') on a frame without that column
               KeyError("leads")
          ELSE
            LET score == LeadScore(leads_df, req.today)
                scored == [k \in DOMAIN leads_df |->
                              Lead(leads_df[k], score[k], req.today)]
                top == LargestFirst(scored, score, 30)
                leads == SelectSeq(top, LAMBDA lead : LeadKept(lead, req))
                Count(P(_)) == Cardinality({ k \in DOMAIN leads : P(leads[k]) })
            IN  [kind |-> "leads", status |-> 200, success |-> TRUE,
                 filter |-> req,
                 leads |-> leads,
                 summary |->
                     [total_leads |-> Len(leads),
                      qualified_leads |-> Count(LAMBDA l : l.status = "Qualified"),
                      contacted_leads |-> Count(LAMBDA l : l.status = "Contacted"),
                      avg_lead_score |->
                          IF leads # <<>>
                          THEN Round(MeanOver([k \in DOMAIN leads |->
                                                  leads[k].lead_score],
                                              DOMAIN leads), 10)
                          ELSE RInt(0),
                      total_potential_value |->
                          Round2(SumOver([k \in DOMAIN leads |->
                                             leads[k].potential_value],
                                         DOMAIN leads)),
                      high_priority_leads |->
                          Count(LAMBDA l : RLe(RInt(70), l.lead_score))]]

GetLeadPipeline ==
    /\ resp = NoResp
    /\ \E req \in LeadRequests : resp' = get_lead_pipeline(req, df)
    /\ UNCHANGED <<now, cached_df, cache_timestamp, call, df>>

(***************************************************************************)
(* GET /reports                                                            *)
(***************************************************************************)
ReportRequests ==
    [period : {"daily", "weekly", "monthly", "quarterly"}, limit : {1, 12}]

\* df['Period']: the start of the period of day d.
PeriodOf(period, d) ==
    CASE period = "daily" -> d
      [] period = "weekly" -> WeekStartOf(d)
      [] period = "quarterly" -> QuarterOf(d) * 3 - 2
      [] OTHER -> MonthOf(d)

\* s.tail(n)
LastRows(s, n) ==
    IF Len(s) <= n THEN s ELSE SubSeq(s, Len(s) - n + 1, Len(s))

get_sales_reports(req, t) ==
    IF "InvoiceDate" \notin t.columns
    THEN KeyError("reports")
    ELSE
      LET rows == t.rows
          key == [i \in DOMAIN rows |-> PeriodOf(req.period, rows[i].InvoiceDate)]
          periods == { key[i] : i \in DOMAIN rows }
          order == CHOOSE s \in [1..Cardinality(periods) -> periods] :
                       \A a, b \in DOMAIN s : a < b => s[a] < s[b]
          revenue == RevenueBy(rows, key)
          Lines(g) == { i \in DOMAIN rows : key[i] = g }
          Metrics(g) ==
              LET orders == Cardinality({ rows[i].InvoiceNo : i \in Lines(g) })
              IN  [period |-> g, revenue |-> revenue[g], orders |-> orders,
                   customers |-> Cardinality({ rows[i].CustomerID : i \in Lines(g) }),
                   avg_order_value |-> Rat(revenue[g], orders)]
          period_metrics == LastRows([k \in DOMAIN order |-> Metrics(order[k])], req.limit)
          n == Len(period_metrics)
          growth_rate ==
              IF n >= 2 /\ period_metrics[n - 1].revenue > 0
              THEN RMul(Rat(period_metrics[n].revenue - period_metrics[n - 1].revenue,
                            period_metrics[n - 1].revenue),
                        RInt(100))
              ELSE RInt(0)
          total_revenue == SumInt([i \in DOMAIN rows |-> LineRevenue(rows[i])],
                                  DOMAIN rows)
          total_orders == Cardinality({ rows[i].InvoiceNo : i \in DOMAIN rows })
          best == CHOOSE k \in DOMAIN period_metrics :
                      /\ \A j \in DOMAIN period_metrics :
                            period_metrics[j].revenue <= period_metrics[k].revenue
                      /\ \A j \in 1..(k - 1) :
                            period_metrics[j].revenue < period_metrics[k].revenue
      IN  [kind |-> "reports", status |-> 200, success |-> TRUE,
           report |->
               [period |-> req.period,
                total_revenue |-> total_revenue,
                total_orders |-> total_orders,
                avg_order_value |-> Round2(Rat(total_revenue, total_orders)),
                total_customers |->
                    Cardinality({ rows[i].CustomerID : i \in DOMAIN rows }),
                growth_rate |-> Round2(growth_rate),
                top_products |->
                    RevenueBy(rows, [i \in DOMAIN rows |-> rows[i].StockCode])],
           trend |-> period_metrics,
           summary |->
               [best_period |-> period_metrics[best].period,
                best_period_revenue |-> period_metrics[best].revenue]]

GetSalesReports ==
    /\ resp = NoResp
    /\ \E req \in ReportRequests : resp' = get_sales_reports(req, df)
    /\ UNCHANGED <<now, cached_df, cache_timestamp, call, df>>

InitSalesManager ==
    /\ now = 0
    /\ cached_df = [s \in Services |-> None]
    /\ cache_timestamp = [s \in Services |-> NoTime]
    /\ call = NoCall
    /\ df \in ManagerTables
    /\ resp = NoResp

NextSalesManager ==
    \/ ProductSearchAutocomplete
    \/ GenerateRecommendations
    \/ RevenueForecastAnalysis
    \/ GetActiveDeals
    \/ GetLeadPipeline
    \/ GetSalesReports
    \/ Respond

SpecSalesManager == InitSalesManager /\ [][NextSalesManager]_vars

(***************************************************************************)
(* Requests in flight and table objects of the cache services.  Each       *)
(* service is one process with one event loop; call[s][r] is the handler   *)
(* of request r of service s, df.heap the DataFrame objects made so far    *)
(* (object k is ObjectIds[k], its value the columns callers added to it),  *)
(* cached_df[s] the object _cached_df of s refers to.  The services share  *)
(* nothing: a behaviour follows the requests of one of them.               *)
(***************************************************************************)
\* Each service receives at most MaxRequests requests.
MaxRequests == 3

ObjectIds == << "o1", "o2", "o3", "o4", "o5", "o6", "o7", "o8" >>
NoObject == None

\* The position of object id in the heap.
Addr(id) == CHOOSE k \in DOMAIN ObjectIds : ObjectIds[k] = id

\* A handler that has not arrived yet.
IdleHandler == [pc |-> "idle", table |-> NoObject, outcome |-> None, seen |-> {}]

\* frame.copy(): a new object of the value of object id; the heap after the
\* copy and the object made.
Copy_SameObject(heap, id) == << heap, id >>

Copy(heap, id) == << Append(heap, heap[Addr(id)]), ObjectIds[Len(heap) + 1] >>

\* pd.read_csv / pd.read_parquet / the MongoDB query: a new object with the
\* columns of the loader.
NewTable(heap) == << Append(heap, {}), ObjectIds[Len(heap) + 1] >>

\* The endpoints are coroutines (async def) that call the synchronous
\* get_local_transactions_df and await nothing before they return: the
\* event loop of s starts the handler of r only when no other handler of s
\* is between its start and its return.
EventLoopFree_Threaded(s, r) == TRUE

EventLoopFree(s, r) ==
    \A q \in DOMAIN call[s] : q # r => call[s][q].pc \in {"idle", "waiting", "done"}

\* A request arrives at service s.
Arrive(s, r) ==
    /\ call[s][r].pc = "idle"
    /\ call' = [call EXCEPT ![s][r].pc = "waiting"]
    /\ UNCHANGED <<now, cached_df, cache_timestamp, df, resp>>

\* The handler of r starts and calls get_local_transactions_df: on a valid
\* cache it returns _cached_df.copy(); otherwise it starts reading the file.
BeginCall(s, r) ==
    /\ call[s][r].pc = "waiting"
    /\ EventLoopFree(s, r)
    /\ IF CacheValid(s)
       THEN LET c == Copy(df.heap, cached_df[s])
            IN  /\ df' = [df EXCEPT !.heap = c[1]]
                /\ call' = [call EXCEPT ![s][r] =
                              [pc |-> "holding", table |-> c[2],
                               outcome |-> "cached", seen |-> c[1][Addr(c[2])]]]
       ELSE /\ call' = [call EXCEPT ![s][r].pc = "loading"]
            /\ UNCHANGED df
    /\ UNCHANGED <<now, cached_df, cache_timestamp, resp>>

\* The load ends: df is the table read, _cached_df = df.copy() and
\* _cache_timestamp = datetime.now() where the loader fills the cache, and
\* df is returned.
FinishLoad(s, r, f) ==
    /\ call[s][r].pc = "loading"
    /\ LET t == NewTable(df.heap)
           c == Copy(t[1], t[2])
       IN  /\ call' = [call EXCEPT ![s][r] =
                         [pc |-> "holding", table |-> t[2],
                          outcome |-> "loaded", seen |-> t[1][Addr(t[2])]]]
           /\ IF FillsCache(s, f)
              THEN /\ df' = [df EXCEPT !.heap = c[1]]
                   /\ cached_df' = [cached_df EXCEPT ![s] = c[2]]
                   /\ cache_timestamp' = [cache_timestamp EXCEPT ![s] = now]
              ELSE /\ df' = [df EXCEPT !.heap = t[1]]
                   /\ UNCHANGED <<cached_df, cache_timestamp>>
    /\ UNCHANGED <<now, resp>>

\* The endpoint adds a column to the table it was returned
\* (df['YearMonth'] = ... in /return-statistics).
AddColumn(s, r) ==
    /\ call[s][r].pc = "holding"
    /\ "YearMonth" \notin df.heap[Addr(call[s][r].table)]
    /\ df' = [df EXCEPT !.heap[Addr(call[s][r].table)] = @ \cup {"YearMonth"}]
    /\ UNCHANGED <<now, cached_df, cache_timestamp, call, resp>>

\* The handler of r returns its response.
FinishRequest(s, r) ==
    /\ call[s][r].pc = "holding"
    /\ call' = [call EXCEPT ![s][r].pc = "done"]
    /\ UNCHANGED <<now, cached_df, cache_timestamp, df, resp>>

\* The clock of the requests in flight runs up to MaxRefreshClock seconds.
MaxRefreshClock == 7200

\* An hour passes.
Elapse ==
    /\ now + cache_ttl <= MaxRefreshClock
    /\ now' = now + cache_ttl
    /\ UNCHANGED <<cached_df, cache_timestamp, call, df, resp>>

InitRefresh ==
    /\ now = 0
    /\ cached_df = [s \in Services |-> None]
    /\ cache_timestamp = [s \in Services |-> NoTime]
    /\ \E s \in Services :
          call = [c \in {s} |-> [r \in 1..MaxRequests |-> IdleHandler]]
    /\ df = [heap |-> <<>>]
    /\ resp = NoResp

NextRefresh ==
    \/ \E s \in DOMAIN call, r \in 1..MaxRequests : Arrive(s, r)
    \/ \E s \in DOMAIN call, r \in 1..MaxRequests : BeginCall(s, r)
    \/ \E s \in DOMAIN call, r \in 1..MaxRequests, f \in Files : FinishLoad(s, r, f)
    \/ \E s \in DOMAIN call, r \in 1..MaxRequests : AddColumn(s, r)
    \/ \E s \in DOMAIN call, r \in 1..MaxRequests : FinishRequest(s, r)
    \/ Elapse

SpecRefresh == InitRefresh /\ [][NextRefresh]_vars

(***************************************************************************)
(* The customer_rfm collection (marketing_api.py, db_utils.py).  A request *)
(* of calculate_rfm_advanced with save_to_db writes its RFM table with     *)
(* delete_many({}) followed by insert_many(records), two commands of the   *)
(* MongoDB server; get_customers_rfm, called by other requests and other   *)
(* services, reads the collection with find({}).  Here df.customer_rfm is  *)
(* the collection and call the saving request; the k-th RFM table saved is *)
(* the records <<k, 1>> .. <<k, SnapshotSize>>.                            *)
(***************************************************************************)
\* An RFM table holds SnapshotSize customers; MaxSnapshots tables are saved.
SnapshotSize == 3
MaxSnapshots == 3

\* rfm.to_dict('records') of the k-th RFM table
Snapshot(k) == [c \in 1..SnapshotSize |-> << k, c >>]

\* The records of the first n entries of records.
Inserted(records, n) == { records[c] : c \in 1..n }

NoSave == [pc |-> "idle", k |-> 0, inserted |-> 0]

\* calculate_rfm_advanced computed its RFM table and reached the save step.
StartSave ==
    /\ call.pc = "idle"
    /\ resp = NoResp
    /\ df.saved < MaxSnapshots
    /\ call' = [pc |-> "delete", k |-> df.saved + 1, inserted |-> 0]
    /\ UNCHANGED <<now, cached_df, cache_timestamp, df, resp>>

\* db['customer_rfm'].delete_many({})
DeleteMany ==
    /\ call.pc = "delete"
    /\ df' = [df EXCEPT !.customer_rfm = {}]
    /\ call' = [call EXCEPT !.pc = "insert"]
    /\ UNCHANGED <<now, cached_df, cache_timestamp, resp>>

\* db['customer_rfm'].insert_many(rfm_dict): the server writes the records
\* in their order, a record at a time.
InsertNext ==
    /\ call.pc = "insert"
    /\ call.inserted < SnapshotSize
    /\ df' = [df EXCEPT !.customer_rfm =
                 @ \cup {Snapshot(call.k)[call.inserted + 1]}]
    /\ call' = [call EXCEPT !.inserted = @ + 1]
    /\ UNCHANGED <<now, cached_df, cache_timestamp, resp>>

\* insert_many returned: the handler builds its response.
SaveDone ==
    /\ call.pc = "insert"
    /\ call.inserted = SnapshotSize
    /\ call' = NoSave
    /\ df' = [df EXCEPT !.saved = call.k]
    /\ resp' = [kind |-> "rfm_advanced", status |-> 200, success |-> TRUE,
                saved |-> call.k]
    /\ UNCHANGED <<now, cached_df, cache_timestamp>>

\* insert_many raised (a write error, a lost connection): the except clause
\* of the handler answers 500; nothing restores the collection.
InsertFails ==
    /\ call.pc = "insert"
    /\ call.inserted < SnapshotSize
    /\ call' = NoSave
    /\ df' = [df EXCEPT !.saved = call.k]
    /\ resp' = Http500("rfm_advanced", "PyMongoError")
    /\ UNCHANGED <<now, cached_df, cache_timestamp>>

\* get_customers_rfm() of another request: list(collection.find({}))
GetCustomersRfm ==
    /\ resp = NoResp
    /\ resp' = [kind |-> "customers_rfm", status |-> 200, success |-> TRUE,
                data |-> df.customer_rfm]
    /\ UNCHANGED <<now, cached_df, cache_timestamp, call, df>>

InitSnapshot ==
    /\ now = 0
    /\ cached_df = [s \in Services |-> None]
    /\ cache_timestamp = [s \in Services |-> NoTime]
    /\ call = NoSave
    /\ df = [customer_rfm |-> Inserted(Snapshot(0), SnapshotSize), saved |-> 0]
    /\ resp = NoResp

NextSnapshot ==
    \/ StartSave
    \/ DeleteMany
    \/ InsertNext
    \/ SaveDone
    \/ InsertFails
    \/ GetCustomersRfm
    \/ Respond

SpecSnapshot == InitSnapshot /\ [][NextSnapshot]_vars

(***************************************************************************)
(* The date filters (db_utils.py filter_by_date_range, admin_api.py        *)
(* _apply_filters).  A date is a day number and an InvoiceDate the seconds *)
(* since 00:00:00 of day 0; the lines of the tables stand on both sides of *)
(* the midnights of days 1, 2 and 3.                                       *)
(***************************************************************************)
FilterDates == {NoDate, 1, 2}
FilterCountries == << "United Kingdom", "France" >>

FilterLines ==
    { [InvoiceNo   |-> InvoiceNos[1 + (d % 2)],
       InvoiceDate |-> d * SecondsPerDay - e,
       Country     |-> FilterCountries[1 + ((d + e) % 2)]] :
      d \in 1..3, e \in 0..1 }

FilterTables == { [rows |-> rs] : rs \in SUBSET FilterLines }

\* FilterRequest; countries None and countries [] both filter nothing.
NoCountries == {}
FilterRequests ==
    [start_date : FilterDates, end_date : FilterDates,
     countries : {NoCountries, {"France"}}, exclude_cancelled : BOOLEAN]

\* _apply_filters, on the table get_local_transactions_df returned
apply_filters(rows, filters) ==
    LET dated ==
            { r \in rows :
                /\ filters.start_date # NoDate =>
                      r.InvoiceDate >= filters.start_date * SecondsPerDay
                /\ filters.end_date # NoDate =>
                      r.InvoiceDate <=
                          (filters.end_date * SecondsPerDay + SecondsPerDay) - 1 }
        of_countries ==
            IF filters.countries # NoCountries
            THEN { r \in dated : r.Country \in filters.countries }
            ELSE dated
    IN  IF rows = {} THEN rows
        ELSE IF filters.exclude_cancelled
             THEN { r \in of_countries : ~ IsReturn(r) }
             ELSE of_countries

FilterByDateRange ==
    /\ resp = NoResp
    /\ \E start_date \in FilterDates, end_date \in FilterDates :
          resp' = [kind |-> "filter_by_date_range",
                   start_date |-> start_date, end_date |-> end_date,
                   rows |-> filter_by_date_range(df.rows, start_date, end_date)]
    /\ UNCHANGED <<now, cached_df, cache_timestamp, call, df>>

ApplyFilters ==
    /\ resp = NoResp
    /\ \E filters \in FilterRequests :
          resp' = [kind |-> "apply_filters", filters |-> filters,
                   rows |-> apply_filters(df.rows, filters)]
    /\ UNCHANGED <<now, cached_df, cache_timestamp, call, df>>

InitFilters ==
    /\ now = 0
    /\ cached_df = [s \in Services |-> None]
    /\ cache_timestamp = [s \in Services |-> NoTime]
    /\ call = NoCall
    /\ df \in FilterTables
    /\ resp = NoResp

NextFilters ==
    \/ FilterByDateRange
    \/ ApplyFilters
    \/ Respond

SpecFilters == InitFilters /\ [][NextFilters]_vars

----------------------------------------------------------------------------
\* C1: get_local_transactions_df returns the cached table without reloading
\* only if less than the TTL of 3600 seconds passed since the cache was
\* filled; for every elapsed time >= 3600 s, a day or more included, it
\* reloads through the loader chain and refreshes the cache timestamp.
C1_ReloadAfterTTL ==
    call.svc # None =>
        /\ call.outcome = "cached" => call.age < cache_ttl
        /\ call.age >= cache_ttl =>
              /\ call.outcome = "loaded"
              /\ cache_timestamp[call.svc] = now


\* t holds at least one valid order.
HasValidOrder(t) == t.flagged /\ df_positive(t) # {}

\* C2: calculate_risk_score answers every order with a successful RiskScore
\* response, never an error outcome, whatever the transaction table: an
\* empty table and an unseen customer or product included.
C2_RiskScoreNeverFails ==
    resp.kind = "risk_score" => resp.status = 200 /\ resp.success

\* C3: with at least one valid order in the table, find_optimal_threshold
\* evaluates simulate_policy for every tau of the grid 0, 5, .., 100, ends
\* in a success outcome, and returns an optimal_tau of the grid with the 21
\* per-tau results.
C3_GridSearchSucceeds ==
    (resp.kind = "optimal" /\ HasValidOrder(df)) =>
        /\ resp.status = 200
        /\ resp.evaluated = Len(tau_values)
        /\ Len(resp.simulation_results) = 21
        /\ \E k \in DOMAIN tau_values : resp.optimal_tau = tau_values[k]

\* C4: the policy find_optimal_threshold returns has an expected_profit no
\* smaller than that of any candidate of the swept grid (tau = 0 among
\* them), and the smallest tau among the candidates of maximal profit.
C4_OptimalIsArgmax ==
    (resp.kind = "optimal" /\ HasValidOrder(df)) =>
        /\ resp.success
        /\ \A k \in DOMAIN resp.simulation_results :
              LET c == resp.simulation_results[k]
              IN  /\ RLe(c.expected_profit, resp.max_expected_profit)
                  /\ c.expected_profit = resp.max_expected_profit
                        => resp.optimal_tau <= c.tau

\* The expected profit the policy of the claim gives one order.
PolicyProfit(revenue, risk, blocked, conversion_impact, return_processing_cost) ==
    LET base_profit == RMul(RInt(revenue), RSub(RInt(1), Rat(3, 10)))
    IN  IF blocked
        THEN RMul(base_profit, RSub(RInt(1), conversion_impact))
        ELSE RSub(base_profit,
                  RMul(RDiv(risk, RInt(100)), RInt(return_processing_cost)))

\* C5: simulate_policy marks a sampled order blocked iff its risk >= tau, and
\* total_expected_profit is the sum over the sample of
\* base_profit * (1 - conversion_impact) for the blocked orders and
\* base_profit - (risk / 100) * return_processing_cost for the allowed ones,
\* base_profit = revenue * (1 - 0.3); the single order of risk 60 and
\* revenue 100 gives 56 at tau = 0 and 64 at tau = 100 (conversion_impact
\* 0.2, return_processing_cost 10).
C5_PolicyProfit ==
    (resp.kind = "simulate" /\ resp.status = 200) =>
        LET orders == resp.orders
            profit == [i \in DOMAIN orders |->
                          PolicyProfit(orders[i].Revenue, orders[i].RiskScore,
                                       orders[i].Blocked, resp.conversion_impact,
                                       resp.return_processing_cost)]
            single == /\ Cardinality(DOMAIN orders) = 1
                      /\ \A i \in DOMAIN orders :
                            orders[i].RiskScore = RInt(60) /\ orders[i].Revenue = 100
                      /\ resp.conversion_impact = Rat(2, 10)
                      /\ resp.return_processing_cost = 10
        IN  /\ \A i \in DOMAIN orders :
                  orders[i].Blocked <=> RLe(RInt(resp.threshold_tau), orders[i].RiskScore)
            /\ resp.total_expected_profit = Round2(SumOver(profit, DOMAIN orders))
            /\ (single /\ resp.threshold_tau = 0) => resp.total_expected_profit = RInt(56)
            /\ (single /\ resp.threshold_tau = 100) => resp.total_expected_profit = RInt(64)

\* The single order of the claim, simulated at tau = 0 and blocked.
C5_Witness ==
    /\ resp.kind = "simulate" /\ resp.status = 200
    /\ resp.threshold_tau = 0
    /\ Cardinality(DOMAIN resp.orders) = 1
    /\ \A i \in DOMAIN resp.orders :
          /\ resp.orders[i].RiskScore = RInt(60)
          /\ resp.orders[i].Revenue = 100
          /\ resp.orders[i].Blocked
    /\ resp.total_expected_profit = RInt(56)

InRange(x) == RLe(RInt(0), x) /\ RLe(x, RInt(100))

\* C6: every risk score calculate_risk_score returns, and every per-order
\* risk score simulate_policy and get_risk_distribution use, lies in
\* [0, 100], for negative, zero or large quantities and prices and return
\* rates of 0% or 100% alike.
C6_RiskInRange ==
    /\ (resp.kind = "risk_score" /\ resp.status = 200) =>
          InRange(resp.score) /\ InRange(resp.risk_score)
    /\ (resp.kind = "simulate" /\ resp.status = 200) =>
          \A i \in DOMAIN resp.orders : InRange(resp.orders[i].RiskScore)
    /\ (resp.kind = "distribution" /\ resp.status = 200) =>
          \A i \in DOMAIN resp.risk_scores : InRange(resp.risk_scores[i])

\* An order of negative quantity whose weighted sum the clamp raised to 0.
C6_Witness ==
    /\ resp.kind = "risk_score" /\ resp.status = 200
    /\ resp.quantity < 0
    /\ resp.score = RInt(0)

\* C7: the level is Low exactly when the score is < 33, Medium exactly when
\* 33 <= score < 67 and High exactly when score >= 67, the boundaries being
\* fixed: 32.999 is Low, 33.0 Medium, 66.999 Medium and 67.0 High.
C7_RiskLevelBoundaries ==
    /\ (resp.kind = "risk_score" /\ resp.status = 200) =>
          /\ resp.risk_level = "Low" <=> RLt(resp.score, RInt(33))
          /\ resp.risk_level = "Medium" <=>
                (RLe(RInt(33), resp.score) /\ RLt(resp.score, RInt(67)))
          /\ resp.risk_level = "High" <=> RLe(RInt(67), resp.score)
    /\ RiskLevel(Rat(32999, 1000)) = "Low"
    /\ RiskLevel(RInt(33)) = "Medium"
    /\ RiskLevel(Rat(66999, 1000)) = "Medium"
    /\ RiskLevel(RInt(67)) = "High"

\* A score of exactly 33 labelled Medium.
C7_Witness ==
    /\ resp.kind = "risk_score" /\ resp.status = 200
    /\ resp.score = RInt(33)
    /\ resp.risk_level = "Medium"

\* The successful answers of run_segmentation.
Segmented == resp.kind = "segmentation" /\ resp.status = 200

Segments == { SegmentNames[k] : k \in DOMAIN SegmentNames }

\* C8: segment_label gives every customer one segment of the closed set
\* Champions, Loyal, At-Risk, Hibernating, Regulars, so the customer_count
\* values of the segments run_segmentation returns, each segment listed once,
\* sum to total_customers.
C8_SegmentsPartition ==
    Segmented =>
        /\ \A c \in DOMAIN resp.rfm : resp.SegmentName[c] \in Segments
        /\ \A i, j \in DOMAIN resp.segments :
              resp.segments[i].segment_name = resp.segments[j].segment_name
                  => i = j
        /\ \A i \in DOMAIN resp.segments :
              /\ resp.segments[i].segment_name \in Segments
              /\ resp.segments[i].customer_count =
                    Cardinality({ c \in DOMAIN resp.rfm :
                        resp.SegmentName[c] = resp.segments[i].segment_name })
        /\ SumOver([i \in DOMAIN resp.segments |->
                       RInt(resp.segments[i].customer_count)],
                   DOMAIN resp.segments) = RInt(resp.total_customers)

\* A segmentation of three or more segments, one of them the default.
C8_Witness ==
    /\ Segmented
    /\ resp.n_segments >= 3
    /\ \E c \in DOMAIN resp.rfm : resp.SegmentName[c] = "Regulars"

\* The rules as the claim words them, over the quantiles of the answer.
ChampionsRule(c) ==
    /\ RLe(RInt(resp.rfm[c].Recency), resp.quantiles.recency.q25)
    /\ RLe(resp.quantiles.frequency.q75, RInt(resp.rfm[c].Frequency))
    /\ RLe(resp.quantiles.monetary.q75, resp.rfm[c].Monetary)

LoyalRule(c) ==
    /\ RLe(RInt(resp.rfm[c].Recency), resp.quantiles.recency.q50)
    /\ RLe(resp.quantiles.frequency.q50, RInt(resp.rfm[c].Frequency))

AtRiskRule(c) ==
    /\ RLe(resp.quantiles.recency.q75, RInt(resp.rfm[c].Recency))
    /\ RLe(RInt(resp.rfm[c].Frequency), resp.quantiles.frequency.q25)

HibernatingRule(c) ==
    /\ RLe(resp.quantiles.recency.q50, RInt(resp.rfm[c].Recency))
    /\ RLe(RInt(resp.rfm[c].Frequency), resp.quantiles.frequency.q50)

AtMedian(c) ==
    /\ RInt(resp.rfm[c].Recency) = resp.quantiles.recency.q50
    /\ RInt(resp.rfm[c].Frequency) = resp.quantiles.frequency.q50

FirstMatch(c) ==
    IF ChampionsRule(c) THEN "Champions"
    ELSE IF LoyalRule(c) THEN "Loyal"
    ELSE IF AtRiskRule(c) THEN "At-Risk"
    ELSE IF HibernatingRule(c) THEN "Hibernating"
    ELSE "Regulars"

\* C9 (amended): segment_label returns the first rule that matches in the
\* order Champions, Loyal, At-Risk, Hibernating, Regulars: a customer meeting
\* the Champions rule is Champions though the Loyal rule holds too; a
\* customer meeting the At-Risk rule and neither the Champions nor the Loyal
\* rule is At-Risk though the Hibernating rule holds too; a customer at the
\* median recency and frequency that is not Champions is Loyal.
C9_FirstMatchWins ==
    Segmented =>
        \A c \in DOMAIN resp.rfm :
            /\ resp.SegmentName[c] = FirstMatch(c)
            /\ ChampionsRule(c) => resp.SegmentName[c] = "Champions"
            /\ AtRiskRule(c) /\ ~ChampionsRule(c) /\ ~LoyalRule(c)
                  => resp.SegmentName[c] = "At-Risk"
            /\ AtMedian(c) /\ ~ChampionsRule(c) => resp.SegmentName[c] = "Loyal"

\* C9 as the specification words it: every customer meeting the At-Risk rule
\* is At-Risk.
C9_AtRiskRuleIsAtRisk ==
    Segmented =>
        \A c \in DOMAIN resp.rfm :
            /\ ChampionsRule(c) => resp.SegmentName[c] = "Champions"
            /\ AtRiskRule(c) => resp.SegmentName[c] = "At-Risk"
            /\ AtMedian(c) /\ ~ChampionsRule(c) => resp.SegmentName[c] = "Loyal"

\* A segmentation where each overlap of the claim is decided by the order.
C9_Witness ==
    /\ Segmented
    /\ \E c \in DOMAIN resp.rfm :
          ChampionsRule(c) /\ LoyalRule(c) /\ resp.SegmentName[c] = "Champions"
    /\ \E c \in DOMAIN resp.rfm :
          AtRiskRule(c) /\ HibernatingRule(c) /\ resp.SegmentName[c] = "At-Risk"
    /\ \E c \in DOMAIN resp.rfm :
          /\ AtMedian(c) /\ HibernatingRule(c) /\ ~ChampionsRule(c)
          /\ resp.SegmentName[c] = "Loyal"

\* The answers that carry the result of a mining run.
Mined ==
    resp.kind \in {"basket", "recommendations", "bundles"} /\ resp.status = 200

\* #baskets containing all items of S / #baskets, of the matrix of the answer.
SupportInAnswer(S) ==
    Rat(Cardinality({ inv \in resp.basket.index :
                        \A p \in S : resp.basket.cell[inv][p] = 1 }),
        Cardinality(resp.basket.index))

ReturnedItemsets == { f.itemsets : f \in resp.frequent_itemsets }

WithinCap(S) == resp.max_len = NoCap \/ Cardinality(S) <= resp.max_len

\* The transactions of the scenario: invoice 1 with 2 X and 1 Y, invoice 2
\* with 1 X.
ScenarioRows == TableLines(<< {"X", "Y"}, {"X"} >>, 2)

\* C10: itemset mining returns only itemsets whose support, the share of
\* the baskets containing all their items, is at least the threshold s, and
\* returns every itemset within the length cap whose support is at least s
\* and whose (k-1)-subsets are all frequent; for the baskets {inv 1: X, Y}
\* and {inv 2: X} with s = 0.5 it returns {X} with support 1.0, {Y} with 0.5
\* and {X, Y} with 0.5.
C10_MiningSoundComplete ==
    Mined =>
        /\ \A f \in resp.frequent_itemsets :
              /\ f.itemsets # {} /\ f.itemsets \subseteq resp.basket.columns
              /\ f.support = SupportInAnswer(f.itemsets)
              /\ RLe(resp.min_support, f.support)
        /\ \A S \in (SUBSET resp.basket.columns) \ {{}} :
              ( /\ WithinCap(S)
                /\ RLe(resp.min_support, SupportInAnswer(S))
                /\ \A p \in S : Cardinality(S) > 1 => (S \ {p}) \in ReturnedItemsets )
                  => S \in ReturnedItemsets
        /\ (df.rows = ScenarioRows /\ resp.min_support = Rat(1, 2)) =>
              resp.frequent_itemsets =
                  { [itemsets |-> {"X"}, support |-> RInt(1)],
                    [itemsets |-> {"Y"}, support |-> Rat(1, 2)],
                    [itemsets |-> {"X", "Y"}, support |-> Rat(1, 2)] }

\* The scenario mined at s = 0.5, the pair among the itemsets returned.
C10_Witness ==
    /\ Mined
    /\ df.rows = ScenarioRows
    /\ resp.min_support = Rat(1, 2)
    /\ [itemsets |-> {"X", "Y"}, support |-> Rat(1, 2)] \in resp.frequent_itemsets

\* C11: every association rule produced from the frequent itemsets has a
\* non-empty antecedent and a non-empty consequent that are disjoint, its
\* confidence is support(antecedent + consequent) / support(antecedent), lies
\* in (0, 1] and is at least min_confidence, and its lift is
\* confidence / support(consequent) and at least 0.
C11_RulesWellFormed ==
    Mined =>
        \A r \in resp.rules :
            /\ r.antecedents # {} /\ r.consequents # {}
            /\ r.antecedents \cap r.consequents = {}
            /\ r.support = SupportInAnswer(r.antecedents \cup r.consequents)
            /\ r.confidence = RDiv(r.support, SupportInAnswer(r.antecedents))
            /\ RLt(RInt(0), r.confidence) /\ RLe(r.confidence, RInt(1))
            /\ RLe(resp.min_confidence, r.confidence)
            /\ r.lift = RDiv(r.confidence, SupportInAnswer(r.consequents))
            /\ RLe(RInt(0), r.lift)

\* Rules of a confidence below 1 and rules over three products.
C11_Witness ==
    /\ Mined
    /\ \E r \in resp.rules : RLt(r.confidence, RInt(1))
    /\ \E r \in resp.rules : Cardinality(r.antecedents \cup r.consequents) = 3

\* The ranking keys of the claim: confidence x lift, then lift, then support.
RankKey(r) == << RMul(r.confidence, r.lift), r.lift, r.support >>

\* The number of rules an answer is to return.
ReturnedCount ==
    IF Cardinality(resp.retained) < resp.top_n
    THEN Cardinality(resp.retained) ELSE resp.top_n

\* C12: the rules every mining entry point returns are the first top_n rules
\* of the retained rule set ordered by confidence x lift descending, ties
\* broken by lift descending and then by support descending.
C12_RankedByScore ==
    Mined =>
        /\ Len(resp.ranked) = ReturnedCount
        /\ \A i \in DOMAIN resp.ranked : resp.ranked[i] \in resp.retained
        /\ \A i, j \in DOMAIN resp.ranked :
              i < j => /\ resp.ranked[i] # resp.ranked[j]
                       /\ ~KeyAbove(RankKey(resp.ranked[j]),
                                    RankKey(resp.ranked[i]))
        /\ \A r \in resp.retained :
              (\A i \in DOMAIN resp.ranked : resp.ranked[i] # r)
                  => \A i \in DOMAIN resp.ranked :
                         ~KeyAbove(RankKey(r), RankKey(resp.ranked[i]))

\* The successful answers of the two generate_recommendations.
Recommended == resp.kind = "recommendations" /\ resp.status = 200

\* The product a recommendation names.
RecommendedCode(rec) ==
    IF "product_code" \in DOMAIN rec THEN rec.product_code ELSE rec.stock_code

\* C13: every recommendation generate_recommendations returns for a source
\* product comes from a rule of the one mined rule set whose antecedent
\* contains the source product; so the source product is never among the
\* recommended products, and at most top_n recommendations are returned,
\* with the ranks 1..k.
C13_RecommendationsFromSourceRules ==
    Recommended =>
        /\ Len(resp.recommendations) <= resp.top_n
        /\ \A i \in DOMAIN resp.recommendations :
              LET rec == resp.recommendations[i]
              IN  /\ rec.rank = i
                  /\ RecommendedCode(rec) # resp.source_product
                  /\ \E r \in resp.rules :
                        /\ resp.source_product \in r.antecedents
                        /\ RecommendedCode(rec) \in r.consequents
                        /\ rec.support = Round4(r.support)
                        /\ rec.confidence = Round4(r.confidence)
                        /\ rec.lift = Round4(r.lift)

\* A rule of two consequents cut to one recommendation at top_n = 1.
C13_Witness ==
    /\ Recommended
    /\ resp.top_n = 1
    /\ Len(resp.recommendations) = 1
    /\ Cardinality(resp.ranked[1].consequents) = 2

\* The successful answers that rest on an RFM table.
RfmComputed ==
    resp.kind \in {"rfm", "rfm_advanced", "segmentation"} /\ resp.status = 200

\* The lines of the table inside the date range of the request answered.
FilteredSet ==
    { r \in df.rows :
        /\ resp.start_date # NoDate
              => r.InvoiceDate >= resp.start_date * SecondsPerDay
        /\ resp.end_date # NoDate
              => r.InvoiceDate < (resp.end_date + 1) * SecondsPerDay }

\* C14: the RFM computation (calculate_rfm, calculate_rfm_advanced, the RFM
\* step of run_segmentation) ends in an error outcome and returns no RFM or
\* segment result whenever the filtered set holds fewer than 5 distinct
\* customers.
C14_FewCustomersIsError ==
    RfmComputed =>
        Cardinality({ r.CustomerID : r \in FilteredSet }) >= 5

\* The non-return lines of the table with quantity > 0 and unit_price > 0.
ValidOrders ==
    { i \in DOMAIN df.rows :
        /\ ~df.rows[i].InvoiceNo.c
        /\ df.rows[i].Quantity > 0
        /\ df.rows[i].UnitPrice > 0 }

\* C15: when no order remains after restricting the table to non-return
\* lines with quantity > 0 and unit_price > 0, simulate_policy and
\* find_optimal_threshold end in an explicit error outcome and return no
\* profit figures or optimal policy.
C15_NoValidOrderIsError ==
    (resp.kind \in {"simulate", "optimal"} /\ ValidOrders = {}) =>
        /\ resp.status >= 400
        /\ ~resp.success
        /\ "error" \in DOMAIN resp
        /\ DOMAIN resp \cap {"total_expected_profit", "orders_blocked",
                             "orders_allowed", "optimal_tau",
                             "max_expected_profit", "simulation_results"} = {}

\* simulate_policy refused a flagged table whose lines are all returns or
\* negative quantities.
C15_Witness ==
    /\ resp.kind = "simulate"
    /\ df.flagged
    /\ Len(df.rows) = MaxLines
    /\ ValidOrders = {}
    /\ \E i \in DOMAIN df.rows : df.rows[i].InvoiceNo.c /\ df.rows[i].Quantity > 0
    /\ resp.status = 500

\* The answers of the mining entry points.
MiningAnswer == resp.kind \in {"basket", "recommendations", "bundles"}

\* The list of rules, bundles or recommendations of a successful answer.
ReturnedList ==
    IF "recommendations" \in DOMAIN resp THEN resp.recommendations
    ELSE resp.bundles

\* No itemset of the basket matrix of the answer reaches min_support.
NoFrequentItemset ==
    \A S \in (SUBSET resp.basket.columns) \ {{}} :
        RLt(SupportInAnswer(S), resp.min_support)

\* A -> C is a rule over a frequent itemset that reaches min_confidence.
ReachesThresholds(A, C) ==
    /\ A # {} /\ C # {} /\ A \cap C = {}
    /\ WithinCap(A \cup C)
    /\ RLe(resp.min_support, SupportInAnswer(A \cup C))
    /\ RLe(resp.min_confidence,
           RDiv(SupportInAnswer(A \cup C), SupportInAnswer(A)))

NoRuleReachesConfidence ==
    \A A \in SUBSET resp.basket.columns, C \in SUBSET resp.basket.columns :
        ~ReachesThresholds(A, C)

NoRuleFromSource ==
    /\ resp.kind = "recommendations"
    /\ \A A \in SUBSET resp.basket.columns, C \in SUBSET resp.basket.columns :
          ReachesThresholds(A, C) => resp.source_product \notin A

\* C16: when no itemset reaches min_support, or no rule reaches
\* min_confidence, or no rule has the source product in its antecedent, every
\* mining entry point returns a successful response with an empty
\* rule/bundle/recommendation list rather than an error outcome: the only
\* error outcomes are those of the table and source product lookups.
C16_NothingFoundIsSuccess ==
    MiningAnswer =>
        /\ resp.status # 200 =>
              resp.error \in {"HTTPException404", "product_not_found"}
        /\ ( /\ resp.status = 200
             /\ NoFrequentItemset \/ NoRuleReachesConfidence \/ NoRuleFromSource )
              => /\ resp.success
                 /\ ReturnedList = <<>>
                 /\ resp.ranked = <<>>

\* Rules were mined, none of them from the source product, and the
\* recommendation list came back empty.
C16_Witness ==
    /\ Recommended
    /\ resp.success
    /\ resp.rules # {}
    /\ NoRuleFromSource
    /\ resp.recommendations = <<>>
    /\ \E i \in DOMAIN resp.lines : resp.lines[i].StockCode = resp.source_product

\* The latest invoice timestamp among the lines L.
LatestOf(L) ==
    CHOOSE d \in { r.InvoiceDate : r \in L } :
        \A r \in L : r.InvoiceDate <= d

\* The lines of customer c in the filtered set.
FilteredLinesOf(c) == { r \in FilteredSet : r.CustomerID = c }

\* C17: for every customer in an RFM result, recency_days >= 0 and
\* frequency >= 1, where recency is the whole-day part of (latest invoice
\* timestamp of the filtered set + 1 day) minus that customer's latest
\* invoice timestamp in the filtered set, and frequency is the number of that
\* customer's distinct invoices in the filtered set.
C17_RecencyAndFrequency ==
    RfmComputed =>
        /\ DOMAIN resp.rfm = { r.CustomerID : r \in FilteredSet }
        /\ \A c \in DOMAIN resp.rfm :
              /\ resp.rfm[c].Recency >= 0
              /\ resp.rfm[c].Frequency >= 1
              /\ resp.rfm[c].Recency =
                    (LatestOf(FilteredSet) + SecondsPerDay
                        - LatestOf(FilteredLinesOf(c))) \div SecondsPerDay
              /\ resp.rfm[c].Frequency =
                    Cardinality({ r.InvoiceNo : r \in FilteredLinesOf(c) })

\* An end date cut later invoices off: the filtered set ends at noon of day
\* 0, and a customer with an invoice of day 2 in the table has recency 1,
\* the whole days of 36 hours, and frequency 1.
C17_Witness ==
    /\ RfmComputed
    /\ resp.end_date = 0
    /\ LatestOf(FilteredSet) = 12 * 60 * 60
    /\ \E c \in DOMAIN resp.rfm :
          /\ \E r \in df.rows : r.CustomerID = c /\ r.InvoiceDate = 2 * SecondsPerDay
          /\ resp.rfm[c].Recency = 1
          /\ resp.rfm[c].Frequency = 1

\* 100 x (invoices among the lines I that are returns) / (invoices among the
\* lines I), an invoice being a return when its id starts with "C" or one of
\* its lines in I has a quantity < 0.
ReturnedInvoiceRate(I) ==
    LET invoices == { df.rows[i].InvoiceNo : i \in I }
        returns == { n \in invoices :
                       \/ n.c
                       \/ \E i \in I : /\ df.rows[i].InvoiceNo = n
                                       /\ df.rows[i].Quantity < 0 }
    IN  RMul(RInt(100), Rat(Cardinality(returns), Cardinality(invoices)))

LinesOfCustomer == { i \in DOMAIN df.rows : df.rows[i].CustomerID = resp.customer_id }
LinesOfProduct == { i \in DOMAIN df.rows : df.rows[i].StockCode = resp.stock_code }

\* C18: in calculate_risk_score, for a customer present in the table
\* customer_return_rate equals 100 x (number of that customer's distinct
\* invoices that are returns) / (number of that customer's distinct
\* invoices), an invoice being a return when its id starts with "C" or it
\* has a line with quantity < 0; for a customer absent from the table it is
\* 30.  The product rate is defined the same way over the product's
\* invoices, with 20 for a product absent from the table.
C18_ReturnRates ==
    (resp.kind = "risk_score" /\ resp.status = 200) =>
        /\ resp.customer_return_rate =
              IF LinesOfCustomer # {} THEN ReturnedInvoiceRate(LinesOfCustomer)
              ELSE RInt(30)
        /\ resp.product_return_rate =
              IF LinesOfProduct # {} THEN ReturnedInvoiceRate(LinesOfProduct)
              ELSE RInt(20)

\* The vocabulary cap N of the entry point that answered.
VocabularyCap ==
    CASE resp.entry = "market_basket_analysis" -> MarketingTopProducts
      [] resp.entry = "sales_manager.generate_recommendations" -> SalesTopProducts
      [] resp.entry = "sales.generate_recommendations" -> SalesApiTopProducts
      [] resp.entry = "sales.get_top_bundles" -> BundlesTopProducts

\* The stock codes of the table and the number of distinct invoices that
\* contain code p.
CodesOfTable == { df.rows[i].StockCode : i \in DOMAIN df.rows }

InvoiceCount(p) ==
    Cardinality({ df.rows[i].InvoiceNo :
                    i \in { j \in DOMAIN df.rows : df.rows[j].StockCode = p } })

\* K is a set of the N codes contained in the largest number of invoices.
MostFrequentCodes(K) ==
    /\ K \subseteq CodesOfTable
    /\ Cardinality(K) = IF Cardinality(CodesOfTable) < VocabularyCap
                        THEN Cardinality(CodesOfTable) ELSE VocabularyCap
    /\ \A p \in K : \A q \in CodesOfTable \ K : InvoiceCount(p) >= InvoiceCount(q)

\* C19: the basket builder keeps exactly the N stock codes contained in the
\* largest number of distinct invoices (N = the vocabulary cap); several
\* lines of the same stock code inside one invoice count once toward that
\* ranking, and no stock code outside those N enters the basket matrix.
C19_VocabularyByInvoiceCount ==
    Mined =>
        /\ MostFrequentCodes(resp.top_products)
        /\ resp.basket.columns \subseteq resp.top_products

\* The row cap M of the entry point that answered.
RowCap ==
    CASE resp.entry = "market_basket_analysis" -> MarketingRowCap
      [] resp.entry = "sales_manager.generate_recommendations" -> SalesRowCap
      [] resp.entry = "sales.generate_recommendations" -> SalesApiRowCap
      [] resp.entry = "sales.get_top_bundles" -> BundlesRowCap

\* The lines of the table whose stock code is in the vocabulary of the answer.
VocabularyLines ==
    { i \in DOMAIN df.rows : df.rows[i].StockCode \in resp.top_products }

RowCapApplies == Cardinality(VocabularyLines) > RowCap

\* The in-vocabulary items of invoice inv.
ItemsOf(inv) ==
    { df.rows[i].StockCode : i \in { j \in VocabularyLines : df.rows[j].InvoiceNo = inv } }

\* The date of invoice inv.
DateOf(inv) ==
    (CHOOSE r \in { df.rows[i] : i \in VocabularyLines } : r.InvoiceNo = inv).InvoiceDate

\* C20: when the row cap applies, the basket matrix is built from the most
\* recent M invoices: every invoice that appears as a basket row carries all
\* of its in-vocabulary items, and no invoice is included with only part of
\* its lines.
C20_CappedInvoicesWhole ==
    (Mined /\ RowCapApplies) =>
        /\ Cardinality(resp.basket.index) <= RowCap
        /\ \A inv \in resp.basket.index :
              /\ \A p \in ItemsOf(inv) :
                    p \in resp.basket.columns /\ resp.basket.cell[inv][p] = 1
              /\ \A i \in VocabularyLines :
                    ~(df.rows[i].InvoiceNo \in resp.basket.index)
                        => df.rows[i].InvoiceDate <= DateOf(inv)

\* C21: no analytic endpoint mutates the shared transaction table: after
\* any sequence of requests to the sales-manager service
\* (generate-recommendations, revenue-forecast, deals, leads, reports,
\* product-search) the module-level TRANSACTION_DATA has exactly the rows
\* and columns it had after loading.
C21_TransactionDataUnchanged == [][df' = df]_vars

\* The requests of service s whose handler is reading the table into the cache.
Refreshing(s) == { r \in DOMAIN call[s] : call[s][r].pc = "loading" }

\* C22: at any time at most one refresh (load of the transaction table into
\* the cache) is in progress per cache; a request that arrives while a
\* refresh is in progress waits for it or is served the previous cached
\* copy, and never starts a second load of the same table.
C22_OneRefreshPerCache ==
    \A s \in DOMAIN call :
        /\ Cardinality(Refreshing(s)) <= 1
        /\ \A r \in Refreshing(s) : \A q \in DOMAIN call[s] :
              q # r => \/ call[s][q].pc \in {"idle", "waiting", "done"}
                       \/ call[s][q].pc = "holding" /\ call[s][q].outcome = "cached"

\* A request waits while the refresh of its service is in progress, after an
\* earlier fill of the cache went stale.
C22_Witness ==
    \E s \in DOMAIN call :
        /\ Refreshing(s) # {}
        /\ cached_df[s] # None
        /\ \E q \in DOMAIN call[s] : call[s][q].pc = "waiting"

\* The handlers that were returned a table.
Returned(s) == { r \in DOMAIN call[s] : call[s][r].pc \in {"holding", "done"} }

\* C23: every table returned by get_local_transactions_df, on a cache hit
\* and on a cache miss through any loader, is an object separate from the
\* cached table, so a mutation a caller applies to a returned table (for
\* example the YearMonth column added by /return-statistics) is never
\* visible in the table returned to any later call.
C23_ReturnedTableSeparate ==
    \A s \in DOMAIN call :
        /\ \A r \in Returned(s) :
              /\ \A c \in Services : call[s][r].table # cached_df[c]
              /\ \A q \in Returned(s) : q # r => call[s][q].table # call[s][r].table
              /\ call[s][r].seen = {}
        /\ cached_df[s] # None => df.heap[Addr(cached_df[s])] = {}

\* A cache hit returned a table without the YearMonth column that the
\* request before it, answered by a load, added to its own table.
C23_Witness ==
    \E s \in DOMAIN call : \E r, q \in Returned(s) :
        /\ call[s][q].outcome = "loaded"
        /\ "YearMonth" \in df.heap[Addr(call[s][q].table)]
        /\ call[s][r].outcome = "cached"
        /\ call[s][r].seen = {}

\* The complete snapshots: the prior ones and the new ones.
CompleteSnapshots ==
    { Inserted(Snapshot(k), SnapshotSize) : k \in 0..MaxSnapshots }

\* C24: when calculate_rfm_advanced runs with save_to_db, the stored
\* customer_rfm snapshot is replaced as a whole: at every moment observable
\* by another request, and after a failure of the insert step, the
\* collection holds either the complete prior snapshot or the complete new
\* snapshot, never an empty or partial one.
C24_SnapshotReplacedWhole ==
    /\ resp.kind = "customers_rfm" => resp.data \in CompleteSnapshots
    /\ call.pc = "idle" => df.customer_rfm \in CompleteSnapshots

\* The day an invoice timestamp falls on.
DayOf(t) == t \div SecondsPerDay

\* The lines of rows invoiced from start_date 00:00:00 to end_date 23:59:59.
Between(rows, start_date, end_date) ==
    { r \in rows :
        /\ start_date # NoDate => DayOf(r.InvoiceDate) >= start_date
        /\ end_date # NoDate => DayOf(r.InvoiceDate) <= end_date }

\* C25: filter_by_date_range keeps exactly the lines whose invoice timestamp
\* t satisfies start_date 00:00:00 <= t <= end_date 23:59:59, both bounds
\* inclusive; an omitted bound leaves its side unfiltered; the date filter
\* of the admin _apply_filters keeps the same set of lines.
C25_DateRangeInclusive ==
    /\ resp.kind = "filter_by_date_range" =>
          resp.rows = Between(df.rows, resp.start_date, resp.end_date)
    /\ resp.kind = "apply_filters" =>
          resp.rows =
              { r \in filter_by_date_range(df.rows, resp.filters.start_date,
                                           resp.filters.end_date) :
                  /\ resp.filters.countries # NoCountries =>
                        r.Country \in resp.filters.countries
                  /\ resp.filters.exclude_cancelled => ~ IsReturn(r) }

\* Both filters answered on a table with a line at 00:00:00 of the start
\* date, a line at 23:59:59 of the end date and a line a second later.
C25_Witness ==
    /\ resp.kind \in {"filter_by_date_range", "apply_filters"}
    /\ LET start_date == IF resp.kind = "apply_filters"
                         THEN resp.filters.start_date ELSE resp.start_date
           end_date == IF resp.kind = "apply_filters"
                       THEN resp.filters.end_date ELSE resp.end_date
       IN  /\ start_date # NoDate
           /\ end_date # NoDate
           /\ \E r \in resp.rows :
                 r.InvoiceDate = start_date * SecondsPerDay
           /\ \E r \in resp.rows :
                 r.InvoiceDate = (end_date + 1) * SecondsPerDay - 1
           /\ \E r \in df.rows \ resp.rows :
                 r.InvoiceDate = (end_date + 1) * SecondsPerDay
           /\ \E r \in df.rows \ resp.rows :
                 r.InvoiceDate = start_date * SecondsPerDay - 1

\* C26: when /leads is called with a status filter, every lead of the
\* response has exactly that status; likewise every returned lead has
\* lead_score >= min_score and the source of the source filter when those
\* filters are given, as /deals does for its status, min_value and stage
\* filters.
C26_FiltersApplied ==
    /\ (resp.kind = "leads" /\ resp.status = 200) =>
          \A k \in DOMAIN resp.leads :
             /\ resp.filter.status # NoFilter =>
                   resp.leads[k].status = resp.filter.status
             /\ resp.filter.min_score # 0 =>
                   RLe(RInt(resp.filter.min_score), resp.leads[k].lead_score)
             /\ resp.filter.source # NoFilter =>
                   resp.leads[k].source = resp.filter.source
    /\ (resp.kind = "deals" /\ resp.status = 200) =>
          \A k \in DOMAIN resp.deals :
             /\ resp.filter.status # NoFilter =>
                   resp.deals[k].status = resp.filter.status
             /\ resp.filter.min_value # 0 =>
                   RLe(RInt(resp.filter.min_value), resp.deals[k].deal_value)
             /\ resp.filter.stage # NoFilter =>
                   resp.deals[k].stage = resp.filter.stage

\* C27: in every calculate_risk_score response the returned risk_level
\* agrees with the returned risk_score, which is rounded to 2 decimals: the
\* response never carries risk_score >= 33 with level Low, nor
\* risk_score >= 67 with level Medium.
C27_LevelAgreesWithScore ==
    (resp.kind = "risk_score" /\ resp.status = 200) =>
        /\ ~(RLe(RInt(33), resp.risk_score) /\ resp.risk_level = "Low")
        /\ ~(RLe(RInt(67), resp.risk_score) /\ resp.risk_level = "Medium")

\* The answer of simulate_policy to the request of resp with threshold tau.
AtThreshold(tau) ==
    simulate_policy([threshold_tau |-> tau,
                     return_processing_cost |-> resp.return_processing_cost,
                     conversion_impact |-> resp.conversion_impact,
                     sample_size |-> resp.sample_size], df)

Thresholds == { req.threshold_tau : req \in PolicyRequests }

\* len(df_sample) for the sample_size of resp
SampleSize ==
    IF Cardinality(df_positive(df)) > resp.sample_size
    THEN resp.sample_size
    ELSE Cardinality(df_positive(df))

\* C28: for a fixed table, sample_size and cost parameters, simulate_policy
\* scores the same sample of orders for every tau, orders_blocked +
\* orders_allowed equals the sample size, orders_blocked is non-increasing
\* as tau increases, and at tau = 0 every sampled order is blocked.
C28_BlockedMonotoneInTau ==
    (resp.kind = "simulate" /\ resp.status = 200) =>
        /\ resp.orders_blocked + resp.orders_allowed = SampleSize
        /\ resp.threshold_tau = 0 => resp.orders_blocked = SampleSize
        /\ \A tau \in Thresholds :
              LET other == AtThreshold(tau)
              IN  /\ other.status = 200
                  /\ DOMAIN other.orders = DOMAIN resp.orders
                  /\ \A i \in DOMAIN resp.orders :
                        other.orders[i].RiskScore = resp.orders[i].RiskScore
                  /\ resp.threshold_tau <= tau =>
                        resp.orders_blocked >= other.orders_blocked

\* A sample smaller than the table of valid orders, scored at tau = 60 with
\* no order blocked, whose order is blocked at tau = 0.
C28_Witness ==
    /\ resp.kind = "simulate"
    /\ resp.status = 200
    /\ resp.threshold_tau = 60
    /\ resp.sample_size < Cardinality(df_positive(df))
    /\ resp.orders_blocked = 0
    /\ AtThreshold(0).orders_blocked = 1

\* C29: when an endpoint detects a client-visible condition and raises an
\* error with a specific status (404 for no data / not found, 400 for not
\* enough data for segmentation), the caller receives that same status; it
\* is never turned into a 500 by the generic exception handler of the
\* endpoint.
C29_RaisedStatusReachesCaller ==
    "error" \in DOMAIN resp =>
        /\ resp.error = "HTTPException404" => resp.status = 404
        /\ resp.error = "HTTPException400" => resp.status = 400

\* C30: the recommendations list generate_recommendations returns for one
\* source product never holds the same product code twice, for any set of
\* retained rules (rules with multi-item antecedents or consequents
\* included, when no itemset length cap is set).
C30_NoProductTwice ==
    (resp.kind = "recommendations" /\ resp.status = 200) =>
        \A j, k \in DOMAIN resp.recommendations :
            RecommendedCode(resp.recommendations[j])
                = RecommendedCode(resp.recommendations[k]) => j = k

============================================================================
